---- MODULE Spec2Model ----
(***************************************************************************)
(* Model of Airent.py:                                                     *)
(*   Spec        the row normaliser InteractiveParser.clean_and_process    *)
(*               (src/Airent.py lines 58-96);                              *)
(*   SpecMap     the column-mapping page show_bulk_upload (lines           *)
(*               1887-2093) with files of one column;                      *)
(*   SpecGate    the same page with a file of the template's columns;      *)
(*   SpecGen     the description loop of that page (lines 2034-2041) with  *)
(*               generate_description (lines 849-866);                     *)
(*   SpecSingle  the single-property page show_single_property (lines      *)
(*               961-1348) with its Generate and Regenerate buttons.       *)
(*                                                                         *)
(* Text is a sequence of one-character strings, so that strip, lower,      *)
(* split, float() and str() are computed character by character.  A        *)
(* character with no TLA+ string escape is written as its code point:      *)
(* "U+000B" is the vertical tab, "U+00A0" the no-break space.              *)
(* A float is a decimal m / 10^e (kind "float"), or "nan", or "inf".       *)
(* Not modelled: float() of exponent notation ("1e3"), of digit separators *)
(* ("1_000") and of digits outside 0-9; str.lower() of letters outside     *)
(* A-Z; str() of floats that Python prints with an exponent; the rounding  *)
(* of decimals to binary floats; pd.to_datetime of text in another        *)
(* notation than ISO YYYY-MM-DD ("01/12/2024", "today", a time of day, a   *)
(* date with spaces around it), for which ToDatetime raises as it does for *)
(* text that is no date.  pd.to_datetime is the one of pandas before 3.0,  *)
(* whose Timestamp counts nanoseconds in 64 bits.  Not modelled either:    *)
(* str() of a Series whose row is not of dtype object (a table of numbers  *)
(* only), or that holds text of 50 characters and more, text with a tab,   *)
(* a newline or a return, or a float of more than six decimals.  The       *)
(* inputs below stay inside that domain.                                   *)
(***************************************************************************)
EXTENDS Integers, Sequences, FiniteSets, TLC

VARIABLES df, today, pc, idx, properties, errors, srcRows,
          uploaded, loaded, your_columns, df_original, column_mapping,
          widget, ran, download, edits, uploads,
          api_provider, api_key, results, replies, temperature, waits,
          called,
          generation_count, generated_result, property_data, city, locality,
          clicked, regens, regens_valid

\* the state of InteractiveParser.clean_and_process
parseVars == <<df, today, pc, idx, properties, errors, srcRows>>

\* the state of the bulk-upload page
uiVars == <<uploaded, loaded, your_columns, df_original, column_mapping,
            widget, ran, download, edits, uploads>>

\* the state of the description generation
genVars == <<api_provider, api_key, results, replies, temperature, waits,
             called>>

\* the state of the single-property page
singleVars == <<generation_count, generated_result, property_data, city,
                locality, clicked, regens, regens_valid>>

vars == <<parseVars, uiVars, genVars, singleVars>>

---------------------------------------------------------------------------
(* Text helpers: Python str methods.                                       *)

\* the whitespace float() drops around a number: the C isspace characters
\* and the Unicode spaces of code point 128 and above
FloatSpace ==
    {" ", "\t", "\n", "\r", "\f", "U+000B", "U+0085", "U+00A0", "U+1680",
     "U+2000", "U+2001", "U+2002", "U+2003", "U+2004", "U+2005", "U+2006",
     "U+2007", "U+2008", "U+2009", "U+200A", "U+2028", "U+2029", "U+202F",
     "U+205F", "U+3000"}

\* the whitespace str.strip() drops (str.isspace): float()'s, and the four
\* ASCII separators, which float() keeps
Whitespace == FloatSpace \cup {"U+001C", "U+001D", "U+001E", "U+001F"}

UpperChars == <<"A","B","C","D","E","F","G","H","I","J","K","L","M",
                "N","O","P","Q","R","S","T","U","V","W","X","Y","Z">>

LowerChars == <<"a","b","c","d","e","f","g","h","i","j","k","l","m",
                "n","o","p","q","r","s","t","u","v","w","x","y","z">>

DigitChars == <<"0","1","2","3","4","5","6","7","8","9">>

IsDigit(c) == \E i \in DOMAIN DigitChars : DigitChars[i] = c

LowerChar(c) ==
    IF \E i \in DOMAIN UpperChars : UpperChars[i] = c
    THEN LowerChars[CHOOSE i \in DOMAIN UpperChars : UpperChars[i] = c]
    ELSE c

\* str.lower()
Lower(s) == [i \in DOMAIN s |-> LowerChar(s[i])]

\* s with the leading and trailing characters of ws dropped
Trim(s, ws) ==
    LET keep == {i \in DOMAIN s : s[i] \notin ws}
    IN  IF keep = {} THEN <<>>
        ELSE LET lo == CHOOSE i \in keep : \A j \in keep : i <= j
                 hi == CHOOSE i \in keep : \A j \in keep : j <= i
             IN  SubSeq(s, lo, hi)

\* str.strip(): drop leading and trailing whitespace
Strip(s) == Trim(s, Whitespace)

\* str.split(sep) for a one-character separator: always at least one part
RECURSIVE Split(_, _)
Split(s, sep) ==
    LET hits == {i \in DOMAIN s : s[i] = sep}
    IN  IF hits = {} THEN <<s>>
        ELSE LET p == CHOOSE i \in hits : \A j \in hits : i <= j
             IN  <<SubSeq(s, 1, p - 1)>> \o Split(SubSeq(s, p + 1, Len(s)), sep)

RECURSIVE Pow10(_)
Pow10(e) == IF e = 0 THEN 1 ELSE 10 * Pow10(e - 1)

Abs(n) == IF n < 0 THEN -n ELSE n

\* decimal digits of a natural number
RECURSIVE NatText(_)
NatText(n) ==
    IF n < 10 THEN <<DigitChars[n + 1]>>
    ELSE NatText(n \div 10) \o <<DigitChars[(n % 10) + 1]>>

\* value of a sequence of digits
RECURSIVE DigitsVal(_)
DigitsVal(s) ==
    IF s = <<>> THEN 0
    ELSE 10 * DigitsVal(SubSeq(s, 1, Len(s) - 1))
            + (CHOOSE i \in DOMAIN DigitChars : DigitChars[i] = s[Len(s)]) - 1

\* zero-padded decimal of width w
RECURSIVE Pad(_, _)
Pad(t, w) == IF Len(t) >= w THEN t ELSE Pad(<<"0">> \o t, w)

---------------------------------------------------------------------------
(* Cell values as pandas hands them to the loop body.                      *)
(*   k = "nan"   an empty cell (float NaN)                                 *)
(*   k = "str"   text s                                                    *)
(*   k = "int"   integer m                                                 *)
(*   k = "float" decimal m / 10^e (normalised: no trailing zero digit);    *)
(*               negative zero is m = 0 with the sign "-" kept in s        *)
(*   k = "inf"   float infinity, m its sign                                *)
(*   k = "ts"    pandas Timestamp at midnight of date d = <<y, mo, dd>>    *)
(*   k = "date"  datetime.date d                                           *)
(*   k = "nat"   pandas NaT                                                *)
(*   k = "none"  Python None (row.get on a column the table lacks)         *)
(*   k = "series" what row[name] gives when several columns of the table   *)
(*               have that name: the pandas Series of their cells, which   *)
(*               are the one element of d, in column order; s is the name  *)
(*               as text and m the index label of the row                  *)

Val(k, s, m, e, d) == [k |-> k, s |-> s, m |-> m, e |-> e, d |-> d]

NaN == Val("nan", <<>>, 0, 0, <<>>)
\* float infinity; m carries the sign (1 or -1)
Inf(sgn) == Val("inf", <<>>, sgn, 0, <<>>)
None == Val("none", <<>>, 0, 0, <<>>)
StrCell(s) == Val("str", s, 0, 0, <<>>)
IntCell(n) == Val("int", <<>>, n, 0, <<>>)
TsCell(d) == Val("ts", <<>>, 0, 0, d)
DateVal(d) == Val("date", <<>>, 0, 0, d)
\* pandas NaT, the missing timestamp
NaT == Val("nat", <<>>, 0, 0, <<>>)

RECURSIVE Normalise(_, _)
Normalise(m, e) ==
    IF e > 0 /\ m % 10 = 0 THEN Normalise(m \div 10, e - 1)
    ELSE Val("float", <<>>, m, e, <<>>)

FloatCell(m, e) == Normalise(m, e)

\* the float -0.0
NegZero == Val("float", <<"-">>, 0, 0, <<>>)

\* outcome of an expression: a value, or a raised exception
Ok(v) == [ok |-> TRUE, v |-> v, exc |-> "", key |-> "", txt |-> <<>>]
Raise(exc, key, txt) == [ok |-> FALSE, v |-> None, exc |-> exc, key |-> key, txt |-> txt]

---------------------------------------------------------------------------
(* Python conversions: str(), float(), int(), pd.notna, pd.to_datetime.    *)

SignText(n) == IF n < 0 THEN <<"-">> ELSE <<>>

\* str(datetime.date): YYYY-MM-DD
IsoText(d) ==
    Pad(NatText(d[1]), 4) \o <<"-">> \o Pad(NatText(d[2]), 2) \o <<"-">>
        \o Pad(NatText(d[3]), 2)

RECURSIVE Str(_)

\* the text of a cell inside the repr of a Series of dtype object: a
\* float with its sign or a space before it, a missing float as NaN, any
\* other value as str() gives it after a space
Shown(c) ==
    CASE c.k \in {"float", "inf"} ->
            IF c.s = <<"-">> \/ c.m < 0
            THEN Str(c) ELSE <<" ">> \o Str(c)
      [] c.k = "nan" -> <<" ","N","a","N">>
      [] OTHER -> <<" ">> \o Str(c)

\* str(Series): a line per cell, the name, three spaces and the text of
\* the cell flushed right, then the line of the row label and the dtype
SeriesText(name, label, cells) ==
    LET w == CHOOSE n \in {Len(Shown(cells[i])) : i \in DOMAIN cells} :
                \A i \in DOMAIN cells : Len(Shown(cells[i])) <= n
        line == [i \in DOMAIN cells |->
                    name \o [j \in 1..(3 + w - Len(Shown(cells[i]))) |-> " "]
                         \o Shown(cells[i]) \o <<"\n">>]
        lines[i \in 0..Len(cells)] ==
            IF i = 0 THEN <<>> ELSE lines[i - 1] \o line[i]
    IN  lines[Len(cells)]
            \o <<"N","a","m","e",":"," ">> \o SignText(label)
            \o NatText(Abs(label))
            \o <<","," ","d","t","y","p","e",":"," ","o","b","j","e","c","t">>

\* str(x) of a cell value
Str(v) ==
    CASE v.k = "str" -> v.s
      [] v.k = "nan" -> <<"n","a","n">>
      [] v.k = "inf" -> SignText(v.m) \o <<"i","n","f">>
      [] v.k = "int" -> SignText(v.m) \o NatText(Abs(v.m))
      [] v.k = "float" ->
            v.s \o SignText(v.m) \o NatText(Abs(v.m) \div Pow10(v.e)) \o <<".">>
                \o (IF v.e = 0 THEN <<"0">>
                    ELSE Pad(NatText(Abs(v.m) % Pow10(v.e)), v.e))
      [] v.k = "ts" -> IsoText(v.d) \o <<" ","0","0",":","0","0",":","0","0">>
      [] v.k = "date" -> IsoText(v.d)
      [] v.k = "nat" -> <<"N","a","T">>
      [] v.k = "none" -> <<"N","o","n","e">>
      [] v.k = "series" -> SeriesText(v.s, v.m, v.d[1])

\* float(text), the digits: body is digits with at most one point, at p
\* (p = Len(body) + 1 when there is none); a signed zero keeps its sign
ParseDecimal(body, p, sgn) ==
    IF sgn < 0 /\ \A i \in DOMAIN body : body[i] \in {"0", "."}
    THEN Ok(NegZero)
    ELSE Ok(FloatCell(sgn * DigitsVal(SubSeq(body, 1, p - 1) \o SubSeq(body, p + 1, Len(body))),
                      IF p > Len(body) THEN 0 ELSE Len(body) - p))

\* float(text), the unsigned part: nan / inf / infinity in any case, or
\* digits with at most one point; s is the whole text, for the message
ParseBody(body, sgn, points, s) ==
    IF Lower(body) = <<"n","a","n">> THEN Ok(NaN)
    ELSE IF Lower(body) \in {<<"i","n","f">>, <<"i","n","f","i","n","i","t","y">>} THEN Ok(Inf(sgn))
    ELSE IF /\ \E i \in DOMAIN body : IsDigit(body[i])
            /\ \A i \in DOMAIN body : IsDigit(body[i]) \/ i \in points
            /\ Cardinality(points) <= 1
    THEN ParseDecimal(body, IF points = {} THEN Len(body) + 1
                            ELSE CHOOSE i \in points : TRUE, sgn)
    ELSE Raise("ValueError", "", s)

\* float(text) after the surrounding whitespace is dropped: an optional
\* sign, then the unsigned part with the places of its points
ParseStripped(t, s) ==
    IF t # <<>> /\ t[1] \in {"+", "-"}
    THEN ParseBody(Tail(t), IF t[1] = "-" THEN -1 ELSE 1,
                   {i \in DOMAIN Tail(t) : Tail(t)[i] = "."}, s)
    ELSE ParseBody(t, 1, {i \in DOMAIN t : t[i] = "."}, s)

\* float(text): surrounding whitespace ignored, optional sign, digits with
\* at most one point, or nan / inf / infinity in any case
ParseFloat(s) == ParseStripped(Trim(s, FloatSpace), s)

\* float(x)
Float(v) ==
    CASE v.k = "str" -> ParseFloat(v.s)
      [] v.k \in {"nan", "inf", "float"} -> Ok(v)
      [] v.k = "int" -> Ok(FloatCell(v.m, 0))
      [] OTHER -> Raise("TypeError", "", <<>>)

\* int(f) as rounding to the nearest integer, halves away from zero
IntNearest(f) ==
    CASE f.k = "nan" -> Raise("ValueError", "", <<"n","a","n">>)
      [] f.k = "inf" -> Raise("OverflowError", "", <<"i","n","f">>)
      [] OTHER ->
            Ok((IF f.m < 0 THEN -1 ELSE 1)
                * ((2 * Abs(f.m) + Pow10(f.e)) \div (2 * Pow10(f.e))))

\* int(f) of a float: truncation toward zero
Int_(f) ==
    CASE f.k = "nan" -> Raise("ValueError", "", <<"n","a","n">>)
      [] f.k = "inf" -> Raise("OverflowError", "", <<"i","n","f">>)
      [] OTHER ->
            Ok((IF f.m < 0 THEN -1 ELSE 1) * (Abs(f.m) \div Pow10(f.e)))

\* int(float(x)): an exception of float() passes on
IntFloat(v) == LET x == Float(v) IN IF x.ok THEN Int_(x.v) ELSE x

\* pd.notna(x) of a scalar: False for NaN, for NaT and for None
NotNa(v) == v.k \notin {"nan", "nat", "none"}

\* the days of month mo of year y
DaysIn(y, mo) ==
    IF mo = 2
    THEN (IF (y % 4 = 0 /\ y % 100 # 0) \/ y % 400 = 0 THEN 29 ELSE 28)
    ELSE IF mo \in {4, 6, 9, 11} THEN 30 ELSE 31

\* pd.to_datetime(text): the missing-value texts give NaT; an ISO date gives
\* the Timestamp of its midnight when that lies between Timestamp.min
\* (1677-09-21 00:12:43) and Timestamp.max (2262-04-11 23:47:16), and
\* raises OutOfBoundsDatetime, a ValueError, when it does not; text that
\* is no date raises ParserError, a ValueError
ToDatetime(s) ==
    IF s \in {<<>>, <<"N","a","T">>, <<"n","a","t">>, <<"N","A","T">>,
              <<"N","a","N">>, <<"n","a","n">>, <<"N","A","N">>}
    THEN Ok(NaT)
    ELSE IF /\ Len(s) = 10
       /\ s[5] = "-" /\ s[8] = "-"
       /\ \A i \in {1, 2, 3, 4, 6, 7, 9, 10} : IsDigit(s[i])
    THEN LET y == DigitsVal(SubSeq(s, 1, 4))
             mo == DigitsVal(SubSeq(s, 6, 7))
             dd == DigitsVal(SubSeq(s, 9, 10))
         IN  IF /\ mo \in 1..12 /\ dd \in 1..DaysIn(y, mo)
                /\ 10000 * y + 100 * mo + dd \in 16770922..22620411
             THEN Ok(TsCell(<<y, mo, dd>>))
             ELSE Raise("ValueError", "", s)
    ELSE Raise("ValueError", "", s)

---------------------------------------------------------------------------
(* Row access: a row is a function from the table's column names to what   *)
(* row[name] gives: the cell, or the Series of the cells of that name.     *)

\* row[col]
Item(row, col) ==
    IF col \in DOMAIN row THEN Ok(row[col]) ELSE Raise("KeyError", col, <<>>)

\* row.get(col, default)
Get(row, col, default) == IF col \in DOMAIN row THEN row[col] ELSE default

---------------------------------------------------------------------------
(* The canonical schema.                                                   *)

\* InteractiveParser.REQUIRED_FIELDS, in declaration order
REQUIRED_FIELDS ==
    <<"property_type", "bhk", "area_sqft", "city", "locality",
      "furnishing_status", "rent_amount", "deposit_amount", "available_from",
      "preferred_tenants">>

Required == {REQUIRED_FIELDS[i] : i \in DOMAIN REQUIRED_FIELDS}

\* the fields clean_and_process reads with a default
Optional == {"landmark", "floor_no", "total_floors", "amenities", "rough_description"}

Fields == Required \cup Optional

---------------------------------------------------------------------------
(* The loop body of clean_and_process, one expression per field.           *)

\* the amenities cell kept whole, as one stripped item
AmenitiesWhole(row) ==
    IF "amenities" \in DOMAIN row /\ NotNa(Get(row, "amenities", None))
    THEN <<Strip(Str(row["amenities"]))>>
    ELSE <<>>

\* lines 65-67: split on commas, every part stripped
Amenities(row) ==
    IF "amenities" \in DOMAIN row /\ NotNa(Get(row, "amenities", None))
    THEN LET parts == Split(Str(row["amenities"]), ",")
         IN  [i \in DOMAIN parts |-> Strip(parts[i])]
    ELSE <<>>

\* lines 71-74: pd.to_datetime(text).date(), where NaT.date() is NaT and an
\* exception of pd.to_datetime passes on; Timestamp.date(); any other cell
\* as it is
ResolveDate(a) ==
    IF a.k = "str"
    THEN LET t == ToDatetime(a.s)
         IN  IF t.ok /\ t.v.k = "ts" THEN Ok(DateVal(t.v.d)) ELSE t
    ELSE IF a.k = "ts" THEN Ok(DateVal(a.d))
    ELSE Ok(a)

\* lines 70-74: the default is used only when the column is not in the row
AvailableFrom(row, now) ==
    ResolveDate(Get(row, "available_from", DateVal(now)))

\* str(row[f]).lower().strip()
LowerText(row, f) ==
    IF Item(row, f).ok THEN Ok(Strip(Lower(Str(row[f])))) ELSE Item(row, f)

\* str(row[f]).strip()
Text(row, f) ==
    IF Item(row, f).ok THEN Ok(Strip(Str(row[f]))) ELSE Item(row, f)

\* str(row.get(f, '')).strip()
OptText(row, f) == Ok(Strip(Str(Get(row, f, StrCell(<<>>)))))

\* int(float(row[f]))
ReqInt(row, f) ==
    IF Item(row, f).ok THEN IntFloat(row[f]) ELSE Item(row, f)

\* int(float(row[f])) if pd.notna(row.get(f)) else None
\* None is <<>>, an integer n is <<n>>; pd.notna of a Series is a Series,
\* whose truth value raises ValueError
OptInt(row, f) ==
    IF Get(row, f, None).k = "series" THEN Raise("ValueError", "", <<>>)
    ELSE IF ~NotNa(Get(row, f, None)) THEN Ok(<<>>)
    ELSE LET n == IntFloat(row[f])
         IN  IF n.ok THEN Ok(<<n.v>>) ELSE n

\* float(row[f])
ReqFloat(row, f) ==
    IF Item(row, f).ok THEN Float(row[f]) ELSE Item(row, f)

\* the value the record gets for field f, or the exception raised for it
FieldExpr(row, f, now) ==
    CASE f = "property_type" -> LowerText(row, f)
      [] f = "bhk" -> Text(row, f)
      [] f = "area_sqft" -> ReqInt(row, f)
      [] f = "city" -> Text(row, f)
      [] f = "locality" -> Text(row, f)
      [] f = "landmark" -> OptText(row, f)
      [] f = "floor_no" -> OptInt(row, f)
      [] f = "total_floors" -> OptInt(row, f)
      [] f = "furnishing_status" -> LowerText(row, f)
      [] f = "rent_amount" -> ReqFloat(row, f)
      [] f = "deposit_amount" -> ReqFloat(row, f)
      [] f = "available_from" ->
            LET a == AvailableFrom(row, now)
            IN  IF a.ok THEN Ok(Str(a.v)) ELSE a
      [] f = "preferred_tenants" -> Text(row, f)
      [] f = "amenities" ->
            IF Get(row, f, None).k = "series"
            THEN Raise("ValueError", "", <<>>)
            ELSE Ok(Amenities(row))
      [] f = "rough_description" -> OptText(row, f)

\* the order in which the body evaluates the expressions that can raise:
\* the amenities (lines 65-67) and the date (lines 70-74) first, then the
\* dict literal top to bottom
EvalOrder ==
    <<"amenities", "available_from", "property_type", "bhk", "area_sqft",
      "city", "locality", "landmark", "floor_no", "total_floors",
      "furnishing_status", "rent_amount", "deposit_amount",
      "preferred_tenants", "rough_description">>

\* the record of the field values out, or the first exception raised
Assemble(out) ==
    IF \A f \in Fields : out[f].ok
    THEN [ok |-> TRUE, rec |-> [f \in Fields |-> out[f].v],
          exc |-> "", key |-> "", txt |-> <<>>]
    ELSE LET first == CHOOSE i \in DOMAIN EvalOrder :
                        /\ ~out[EvalOrder[i]].ok
                        /\ \A j \in 1..(i - 1) : out[EvalOrder[j]].ok
             e == out[EvalOrder[first]]
         IN  [ok |-> FALSE, rec |-> [f \in {} |-> <<>>],
              exc |-> e.exc, key |-> e.key, txt |-> e.txt]

\* lines 63-94 for one row: the record appended, or the exception caught
CleanRow(row, now) == Assemble([f \in Fields |-> FieldExpr(row, f, now)])

\* Diagnostic with the row number counted from the first data row as row 1
DiagnosticNoHeader(i, r) ==
    [row |-> i + 1, exc |-> r.exc, key |-> r.key, txt |-> r.txt]

\* line 94: the text "Row {idx+2}: {str(e)}", kept structured:
\* row = idx + 2; str(e) is the quoted key of a KeyError, and holds the
\* offending text txt of a ValueError
Diagnostic(i, r) == [row |-> i + 2, exc |-> r.exc, key |-> r.key, txt |-> r.txt]

---------------------------------------------------------------------------
(* Inputs: the tables handed to clean_and_process.                         *)

\* the two rows of the downloadable template (lines 1893-1909)
TemplateRow1 ==
    [property_type |-> StrCell(<<"f","l","a","t">>),
     bhk |-> StrCell(<<"2">>),
     area_sqft |-> IntCell(1200),
     city |-> StrCell(<<"M","u","m","b","a","i">>),
     locality |-> StrCell(<<"A","n","d","h","e","r","i">>),
     landmark |-> StrCell(<<"M","e","t","r","o">>),
     floor_no |-> IntCell(5),
     total_floors |-> IntCell(10),
     furnishing_status |-> StrCell(<<"s","e","m","i">>),
     rent_amount |-> IntCell(25000),
     deposit_amount |-> IntCell(50000),
     available_from |-> StrCell(<<"2","0","2","4","-","1","2","-","0","1">>),
     preferred_tenants |-> StrCell(<<"F","a","m","i","l","y">>),
     amenities |-> StrCell(<<"P","a","r","k","i","n","g",",","G","y","m">>),
     rough_description |-> StrCell(<<"N","i","c","e"," ","f","l","a","t">>)]

TemplateRow2 ==
    [property_type |-> StrCell(<<"v","i","l","l","a">>),
     bhk |-> StrCell(<<"3">>),
     area_sqft |-> IntCell(2500),
     city |-> StrCell(<<"P","u","n","e">>),
     locality |-> StrCell(<<"K","o","t","h","r","u","d">>),
     landmark |-> StrCell(<<"F","C"," ","R","o","a","d">>),
     floor_no |-> IntCell(1),
     total_floors |-> IntCell(2),
     furnishing_status |-> StrCell(<<"f","u","l","l","y">>),
     rent_amount |-> IntCell(45000),
     deposit_amount |-> IntCell(90000),
     available_from |-> StrCell(<<"2","0","2","4","-","1","2","-","1","5">>),
     preferred_tenants |-> StrCell(<<"F","a","m","i","l","y">>),
     amenities |-> StrCell(<<"P","o","o","l",",","G","a","r","d","e","n">>),
     rough_description |-> StrCell(<<"L","u","x","u","r","y"," ","v","i","l","l","a">>)]

\* a row whose area is no number
BadAreaRow == [TemplateRow1 EXCEPT !["area_sqft"] = StrCell(<<"a","b","c">>)]

\* cells a spreadsheet can hold in a text column
TextEdge ==
    {NaN, StrCell(<<"U+000B","A","b","U+001F">>), StrCell(<<" "," ">>), StrCell(<<" ","A","b"," ">>), IntCell(2), FloatCell(25, 1)}

\* cells a spreadsheet can hold in a number column
NumEdge ==
    {NaN, StrCell(<<"U+000B","1","2","U+00A0">>), StrCell(<<"U+001F","1","2">>), StrCell(<<" ","-","0">>), StrCell(<<"a","b","c">>), StrCell(<<" ","1","2",".","9"," ">>), StrCell(<<"n","a","n">>), StrCell(<<" "," ">>), StrCell(<<"i","n","f">>),
     FloatCell(12009, 1), FloatCell(-75, 1), TsCell(<<2024, 12, 1>>)}

FloorEdge ==
    {NaN, StrCell(<<"a","b","c">>), StrCell(<<"3">>), StrCell(<<"i","n","f">>), FloatCell(27, 1)}

DateEdge ==
    {NaN, StrCell(<<"N","a","T">>), StrCell(<<"0","0","0","0","-","0","1","-","0","1">>), StrCell(<<"n","o","t","-","a","-","d","a","t","e">>), StrCell(<<"2","0","2","4","-","0","2","-","3","0">>), StrCell(<<"2","0","2","4","-","0","2","-","2","9">>),
     TsCell(<<2025, 1, 15>>), IntCell(5)}

AmenitiesEdge ==
    {NaN, StrCell(<<"P","a","r","k","i","n","g",";","G","y","m">>), StrCell(<<"P","a","r","k","i","n","g">>), StrCell(<<" ","P","a","r","k","i","n","g"," ",","," ","G","y","m"," ">>),
     StrCell(<<"a",",","b",";","c">>), StrCell(<<" ">>), IntCell(7)}

OptTextEdge == {NaN, StrCell(<<" ","x"," ">>), IntCell(7)}

EdgeCells(f) ==
    CASE f \in {"area_sqft", "rent_amount", "deposit_amount"} -> NumEdge
      [] f \in {"floor_no", "total_floors"} -> FloorEdge
      [] f = "available_from" -> DateEdge
      [] f = "amenities" -> AmenitiesEdge
      [] f \in {"landmark", "rough_description"} -> OptTextEdge
      [] OTHER -> TextEdge

\* the first template row with one cell replaced
EdgeRows ==
    UNION {{[TemplateRow1 EXCEPT ![f] = c] : c \in EdgeCells(f)} : f \in Fields}

MaxRows == 3

\* a table with every column: row p is the edge row e, the others are rest
EdgeTable(n, p, e, rest) == [i \in 1..n |-> IF i = p THEN e ELSE rest[i]]

\* a table of plain rows that lacks the columns A
AbsentTable(n, A, rows) == [i \in 1..n |-> [c \in Fields \ A |-> rows[i][c]]]

\* the tables of at most MaxRows rows: plain rows lacking some columns
\* (none, any single column, or every optional column: the mapping
\* renames required fields only), or fill rows around one edge row
IsTable(t) ==
    \E n \in 0..MaxRows :
        \/ \E A \in {{}} \cup {{f} : f \in Fields} \cup {Optional} :
           \E rows \in [1..n -> {TemplateRow1, TemplateRow2, BadAreaRow}] :
                t = AbsentTable(n, A, rows)
        \/ \E p \in 1..n : \E e \in EdgeRows :
           \E rest \in [1..n -> {TemplateRow2, BadAreaRow}] :
                /\ rest[p] = BadAreaRow
                /\ t = EdgeTable(n, p, e, rest)

---------------------------------------------------------------------------
(* The bulk-upload page: st.session_state.column_mapping and the           *)
(* selectboxes of show_bulk_upload (lines 1927-2093).                      *)
(* A dict is the sequence of its <<key, value>> items in insertion order.  *)
(* A column name is a TLA+ string; the None of dict.get is "".             *)
(* A selectbox keeps the option the user chose until the file changes;     *)
(* with a new file it shows the option at index=default_index.             *)

\* the first option of every selectbox (line 1971)
Placeholder == "-- Select Column --"

\* the text the summary shows for a field without an entry (line 1989)
NotMapped == "NOT MAPPED"

\* key in dict
Has(d, k) == \E i \in DOMAIN d : d[i][1] = k

\* dict.get(k, default)
DictGet(d, k, default) ==
    IF Has(d, k) THEN d[CHOOSE i \in DOMAIN d : d[i][1] = k][2] ELSE default

\* dict[k] = v: a present key keeps its place, a new key goes last
DictSet(d, k, v) ==
    IF Has(d, k)
    THEN [i \in DOMAIN d |-> IF d[i][1] = k THEN <<k, v>> ELSE d[i]]
    ELSE Append(d, <<k, v>>)

\* c in your_columns
In(cols, c) == \E i \in DOMAIN cols : cols[i] = c

\* your_columns.index(c) + 1: the first position of c, counted from 1
IndexOf(cols, c) ==
    CHOOSE i \in DOMAIN cols :
        cols[i] = c /\ \A j \in 1..(i - 1) : cols[j] # c

\* lines 1961-1967: the position of the mapped column among the options,
\* counted from 0, or 0 for the placeholder
DefaultIndex(m, cols, f) ==
    IF DictGet(m, f, "") # "" /\ In(cols, DictGet(m, f, ""))
    THEN IndexOf(cols, DictGet(m, f, ""))
    ELSE 0

\* line 1971: the options of a selectbox
Options(cols) == <<Placeholder>> \o cols

\* lines 1969-1974 with a new file: every selectbox shows its default
DefaultWidget(m, cols) ==
    [i \in DOMAIN REQUIRED_FIELDS |->
        Options(cols)[DefaultIndex(m, cols, REQUIRED_FIELDS[i]) + 1]]

\* lines 1957-1982: the loop over the required fields from the i-th on;
\* w[i] is the option the i-th selectbox returns.  A chosen column is
\* written to the mapping, the placeholder only shows a warning
RECURSIVE MapFields(_, _, _)
MapFields(m, w, i) ==
    IF i > Len(REQUIRED_FIELDS)
    THEN m
    ELSE MapFields(IF w[i] # Placeholder
                   THEN DictSet(m, REQUIRED_FIELDS[i], w[i])
                   ELSE m,
                   w, i + 1)

\* lines 1985-1999: the rows of the summary table, none while the mapping
\* is empty.  Status "ok" stands for the check mark, "missing" for the cross
SummaryRows(m) ==
    IF m = <<>>
    THEN <<>>
    ELSE [i \in DOMAIN REQUIRED_FIELDS |->
            [field  |-> REQUIRED_FIELDS[i],
             column |-> DictGet(m, REQUIRED_FIELDS[i], NotMapped),
             status |-> IF DictGet(m, REQUIRED_FIELDS[i], NotMapped)
                           # NotMapped
                        THEN "ok" ELSE "missing"]]

\* lines 2002-2005
all_mapped(m) ==
    \A i \in DOMAIN REQUIRED_FIELDS : Has(m, REQUIRED_FIELDS[i])

\* line 2091
missing_count(m) == Len(REQUIRED_FIELDS) - Len(m)

\* line 2011: {v: k for k, v in column_mapping.items()} from the i-th item
RECURSIVE ReverseFrom(_, _, _)
ReverseFrom(m, i, acc) ==
    IF i > Len(m)
    THEN acc
    ELSE ReverseFrom(m, i + 1, DictSet(acc, m[i][2], m[i][1]))

\* line 2011
reverse_mapping(m) == ReverseFrom(m, 1, <<>>)

\* the names of the required fields as text
ColumnText ==
    [property_type |-> <<"p","r","o","p","e","r","t","y","_","t","y","p","e">>,
     bhk |-> <<"b","h","k">>,
     area_sqft |-> <<"a","r","e","a","_","s","q","f","t">>,
     city |-> <<"c","i","t","y">>,
     locality |-> <<"l","o","c","a","l","i","t","y">>,
     furnishing_status |-> <<"f","u","r","n","i","s","h","i","n","g","_",
                             "s","t","a","t","u","s">>,
     rent_amount |-> <<"r","e","n","t","_","a","m","o","u","n","t">>,
     deposit_amount |-> <<"d","e","p","o","s","i","t","_","a","m","o","u",
                          "n","t">>,
     available_from |-> <<"a","v","a","i","l","a","b","l","e","_","f","r",
                          "o","m">>,
     preferred_tenants |-> <<"p","r","e","f","e","r","r","e","d","_","t","e",
                             "n","a","n","t","s">>]

\* lines 54-56: df.rename(columns=mapping) on the table of rows t and
\* columns cols, in file order.  A column that is a key of mapping gets
\* the name of its value and keeps its place and cells, any other column
\* stays as it is.  Where the new names of several columns are the same,
\* the table has all of them and a row gives for the name the Series of
\* their cells, labelled with the row's index
apply_mapping(t, cols, mapping) ==
    [k \in DOMAIN t |->
        [n \in {DictGet(mapping, cols[i], cols[i]) : i \in DOMAIN cols} |->
            LET at == {i \in DOMAIN cols :
                          DictGet(mapping, cols[i], cols[i]) = n}
                nth(j) == CHOOSE i \in at :
                              Cardinality({h \in at : h < i}) = j - 1
            IN  IF Cardinality(at) = 1
                THEN t[k][cols[nth(1)]]
                ELSE Val("series", ColumnText[n], k - 1, 0,
                         << [j \in 1..Cardinality(at) |->
                                t[k][cols[nth(j)]]] >>)]]

\* lines 76-94 on the accumulated lists
Gather(acc, i, r) ==
    IF r.ok
    THEN [acc EXCEPT !.properties = Append(@, r.rec),
                     !.srcRows = Append(@, i)]
    ELSE [acc EXCEPT !.errors = Append(@, Diagnostic(i, r))]

\* lines 62-94: the loop from the i-th row on
RECURSIVE CleanFrom(_, _, _, _)
CleanFrom(t, now, i, acc) ==
    IF i > Len(t)
    THEN acc
    ELSE CleanFrom(t, now, i + 1, Gather(acc, i - 1, CleanRow(t[i], now)))

\* lines 58-96: the whole call on a fresh parser
clean_and_process(t, now) ==
    CleanFrom(t, now, 1, [properties |-> <<>>, errors |-> <<>>,
                          srcRows |-> <<>>])


\* the template table of the download expander (lines 1893-1909)
template == <<TemplateRow1, TemplateRow2>>

\* lines 874-878 and no file in the uploader: the page of a new session
PageIdle ==
    /\ uploaded = FALSE
    /\ loaded = FALSE
    /\ your_columns = <<>>
    /\ df_original = <<>>
    /\ column_mapping = <<>>
    /\ widget = [i \in DOMAIN REQUIRED_FIELDS |-> Placeholder]
    /\ ran = FALSE
    /\ download = <<>>
    /\ edits = 0
    /\ uploads = 0

---------------------------------------------------------------------------
(* Description generation: generate_description and the providers.         *)
(* A JSON value is [t, d]: t = "dict" with the items d, t = "list" with   *)
(* the elements d, t = "str" with the text d, t = "number" with its        *)
(* digits as the one element of d, or t = "null", which is Python's None.  *)
(* A list with t = "list" holds texts only.  In a dict the value of a      *)
(* text key is the text itself and the value of bullet_points and          *)
(* seo_keywords a JSON value.  A reply of a                                *)
(* provider is [status, exc, body]:                                        *)
(* the exception requests.post raised (exc), or the HTTP status and, for   *)
(* status 200, what the message content holds (body).  The content is the  *)
(* remote model's choice, so the parsed value is drawn from a few kinds    *)
(* of content and does not depend on the prompt.                           *)

\* the keys the page reads from every description, in the order it
\* reads them (lines 2059-2065)
DocFields ==
    <<"title", "teaser_text", "full_description", "bullet_points",
      "seo_keywords", "meta_title", "meta_description">>

DocFieldSet == {DocFields[i] : i \in DOMAIN DocFields}

\* the keys that hold a list of texts
ListFields == {"bullet_points", "seo_keywords"}

\* a Python dict of the items d
Dict(d) == [t |-> "dict", d |-> d]

\* Python None, and json.loads("null")
JsonNull == [t |-> "null", d |-> <<>>]

\* bool(value): None, the empty dict and the empty list are false
Truthy(j) == j.t # "null" /\ DOMAIN j.d # {}

UpperChar(c) ==
    IF \E i \in DOMAIN LowerChars : LowerChars[i] = c
    THEN UpperChars[CHOOSE i \in DOMAIN LowerChars : LowerChars[i] = c]
    ELSE c

IsLetter(c) ==
    \E i \in DOMAIN LowerChars : LowerChars[i] = c \/ UpperChars[i] = c

\* str.title(): a letter after a non-letter is upper case, any other lower
Title(s) ==
    [i \in DOMAIN s |->
        IF i > 1 /\ IsLetter(s[i - 1]) THEN LowerChar(s[i])
        ELSE UpperChar(s[i])]

\* lines 826-845: the f-string of key f; v holds the texts of the values
\* the f-strings embed
FallbackField(f, v) ==
    CASE f = "title" ->
            <<"S","p","a","c","i","o","u","s"," ">>
            \o v.bhk
            \o <<" ","B","H","K"," ">>
            \o v.prop_type
            \o <<" ","f","o","r"," ","R","e","n","t"," ","i","n"," ">>
            \o v.locality
      [] f = "teaser_text" ->
            <<"W","e","l","l","-","m","a","i","n","t","a","i","n","e",
              "d"," ">>
            \o v.bhk
            \o <<" ","B","H","K"," ">>
            \o v.prop_type
            \o <<" ","i","n"," ","p","r","i","m","e"," ">>
            \o v.locality
            \o <<" ","l","o","c","a","t","i","o","n">>
      [] f = "full_description" ->
            <<"L","o","o","k","i","n","g"," ","f","o","r"," ","a"," ",
              "c","o","m","f","o","r","t","a","b","l","e"," ","h","o",
              "m","e","?"," ","T","h","i","s"," ","b","e","a","u","t",
              "i","f","u","l"," ">>
            \o v.bhk
            \o <<" ","B","H","K"," ">>
            \o v.prop_type
            \o <<" ","i","n"," ">>
            \o v.locality
            \o <<","," ">>
            \o v.city
            \o <<" ","i","s"," ","p","e","r","f","e","c","t"," ","f","o",
                 "r"," ","y","o","u","."," ","S","p","r","e","a","d"," ",
                 "a","c","r","o","s","s"," ">>
            \o v.area
            \o <<" ","s","q","f","t",","," ","t","h","i","s"," ">>
            \o v.furnishing
            \o <<" ","f","u","r","n","i","s","h","e","d"," ","p","r","o",
                 "p","e","r","t","y"," ","o","f","f","e","r","s"," ","g",
                 "r","e","a","t"," ","v","a","l","u","e"," ","a","t"," ",
                 "R","s",".">>
            \o v.rent
            \o <<"/","m","o","n","t","h","."," ","L","o","c","a","t","e",
                 "d"," ","i","n"," ","a"," ","w","e","l","l","-","c","o",
                 "n","n","e","c","t","e","d"," ","a","r","e","a"," ","w",
                 "i","t","h"," ","e","a","s","y"," ","a","c","c","e","s",
                 "s"," ","t","o"," ","e","s","s","e","n","t","i","a","l",
                 " ","a","m","e","n","i","t","i","e","s",".">>
      [] f = "bullet_points" ->
            <<
              v.bhk
              \o <<" ","B","H","K"," ","c","o","n","f","i","g","u","r",
                   "a","t","i","o","n"," ","w","i","t","h"," ">>
              \o v.area
              \o <<" ","s","q","f","t"," ","c","a","r","p","e","t"," ",
                   "a","r","e","a">>,
              v.furnishing
              \o <<" ","f","u","r","n","i","s","h","e","d"," ","w","i",
                   "t","h"," ","m","o","d","e","r","n"," ","f","i","t",
                   "t","i","n","g","s">>,
              <<"M","o","n","t","h","l","y"," ","r","e","n","t",":",
                " ","R","s",".">>
              \o v.rent
              \o <<" ","|"," ","D","e","p","o","s","i","t",":"," ","R",
                   "s",".">>
              \o v.deposit,
              <<"P","r","e","f","e","r","r","e","d"," ","f","o","r",
                ":"," ">>
              \o v.tenants,
              <<"A","v","a","i","l","a","b","l","e"," ","f","r","o",
                "m",":"," ">>
              \o v.available
            >>
      [] f = "seo_keywords" ->
            <<
              v.bhk
              \o <<" ","b","h","k"," ">>
              \o v.city,
              v.locality
              \o <<" ","r","e","n","t","a","l">>,
              v.prop_type
              \o <<" ","f","o","r"," ","r","e","n","t"," ">>
              \o v.city,
              v.furnishing
              \o <<" ","f","l","a","t"," ">>
              \o v.locality,
              <<"r","e","n","t"," ">>
              \o v.bhk
              \o <<"b","h","k"," ">>
              \o v.city
            >>
      [] f = "meta_title" ->
            v.bhk
            \o <<" ","B","H","K"," ">>
            \o v.prop_type
            \o <<" ","f","o","r"," ","R","e","n","t"," ","i","n"," ">>
            \o v.locality
            \o <<","," ">>
            \o v.city
      [] f = "meta_description" ->
            <<"R","e","n","t"," ","t","h","i","s"," ","s","p","a","c",
              "i","o","u","s"," ">>
            \o v.bhk
            \o <<" ","B","H","K"," ">>
            \o v.prop_type
            \o <<" ","i","n"," ">>
            \o v.locality
            \o <<","," ">>
            \o v.city
            \o <<"."," ">>
            \o v.area
            \o <<" ","s","q","f","t",","," ">>
            \o v.furnishing
            \o <<" ","f","u","r","n","i","s","h","e","d","."," ","R","s",
                 ".">>
            \o v.rent
            \o <<"/","m","o","n","t","h","."," ","A","v","a","i","l","a",
                 "b","l","e"," ","n","o","w","!">>

\* lines 816-846
generate_fallback(p) ==
    LET v == [bhk        |-> p["bhk"],
              prop_type  |-> Title(p["property_type"]),
              locality   |-> p["locality"],
              city       |-> p["city"],
              area       |-> Str(IntCell(p["area_sqft"])),
              rent       |-> Str(p["rent_amount"]),
              furnishing |-> Title(p["furnishing_status"]),
              deposit    |-> Str(p["deposit_amount"]),
              tenants    |-> p["preferred_tenants"],
              available  |-> p["available_from"]]
    IN  Dict([f \in DocFieldSet |->
                IF f \in ListFields
                THEN [t |-> "list", d |-> FallbackField(f, v)]
                ELSE FallbackField(f, v)])

\* the sidebar's providers (line 887)
Groq == "Groq Premium (Free)"
Claude == "Claude (Paid Premium)"
Grok == "Grok (X.AI)"
TemplateProvider == "Template (No API)"
Providers == {Groq, Claude, Grok, TemplateProvider}

\* a content with all seven keys, as the prompts ask for (lines 236-241)
FullDocument ==
    Dict([f \in DocFieldSet |->
            IF f \in ListFields
            THEN [t |-> "list", d |-> << <<"A","I">> >>]
            ELSE <<"A","I">>])

\* a content with all seven keys whose bullet_points is the number 5
UnjoinableDocument ==
    Dict([f \in DocFieldSet |->
            IF f = "bullet_points"
            THEN [t |-> "number", d |-> << <<"5">> >>]
            ELSE FullDocument.d[f]])

\* a content that is a JSON object with the title only
PartialDocument == Dict([f \in {"title"} |-> <<"A","I">>])

\* what a 200 response can hold: a JSON object with all keys, one with
\* all keys whose bullet_points is no list of texts (5; null and [1, 2]
\* act as it, and so does seo_keywords), one with some keys, {} , null,
\* JSON that is no object (["a", "b"] and [] ; text, a number and true act
\* as the first, "", 0 and false as the second), text that is no JSON, or
\* no choices at all
Bodies ==
    {"document", "unjoinable", "partial", "empty", "null", "list",
     "emptylist", "garbage", "nochoices"}

Http(status, body) == [status |-> status, exc |-> "", body |-> body]
Failed(exc) == [status |-> 0, exc |-> exc, body |-> ""]

\* the outcomes of one requests.post
Replies ==
    {Http(200, b) : b \in Bodies}
        \cup {Http(s, "") : s \in {429, 401, 400, 500}}
        \cup {Failed("Timeout"), Failed("ConnectionError")}

\* lines 274-286 with the handlers of lines 324-332: json.loads of the
\* content, or None after the KeyError or JSONDecodeError it raised
ParsedOrNone(body) ==
    CASE body = "document" -> FullDocument
      [] body = "unjoinable" -> UnjoinableDocument
      [] body = "partial" -> PartialDocument
      [] body = "empty" -> Dict(<<>>)
      [] body = "list" -> [t |-> "list", d |-> << <<"a">>, <<"b">> >>]
      [] body = "emptylist" -> [t |-> "list", d |-> <<>>]
      [] OTHER -> JsonNull

\* one request without retry: the parsed content of a 200 response, None
\* for any other status and for any exception
Once(r) ==
    IF r.exc = "" /\ r.status = 200 THEN ParsedOrNone(r.body) ELSE JsonNull

\* every outcome but a 200 response tried again
RetryableAny(r) == r.exc # "" \/ r.status # 200

\* lines 289-297 and 315-322: the outcomes that are tried again
Retryable(r) == r.exc = "Timeout" \/ (r.exc = "" /\ r.status = 429)

\* line 126: the default of retry_count
retry_count == 3

\* the temperature without the reset
TemperatureNoReset(base, variation_seed) == base + 5 * variation_seed

\* the temperature reset at every seed
TemperatureCycle(base, variation_seed) == base + 5 * (variation_seed % 3)

\* lines 243-245 and 644-646 in hundredths: base + 0.05 * seed, and
\* base + 0.05 * (seed % 3) once that is above 1.0
Temperature(base, variation_seed) ==
    IF base + 5 * variation_seed > 100
    THEN base + 5 * (variation_seed % 3)
    ELSE base + 5 * variation_seed

\* the loop with every 429 and timeout tried again while replies come
RECURSIVE GroqUnbounded(_, _, _, _)
GroqUnbounded(seq, attempt, retries, slept) ==
    IF attempt + 1 > Len(seq)
    THEN [value |-> JsonNull, used |-> attempt + 1, waits |-> slept]
    ELSE IF Retryable(seq[attempt + 1])
    THEN GroqUnbounded(seq, attempt + 1, retries,
                Append(slept,
                    IF seq[attempt + 1].exc = "Timeout"
                    THEN 2
                    ELSE (attempt + 1) * 2))
    ELSE [value |-> Once(seq[attempt + 1]), used |-> attempt + 1,
          waits |-> slept]

\* lines 161-334 from attempt on, for retry_count = retries; seq[k] is the
\* outcome of the k-th request and slept the waits so far.  The value
\* returned, the number of requests made (one more than Len(seq) when seq
\* runs out) and the waits made: time.sleep of 2 * (attempt + 1) seconds
\* after a 429 (line 292), of 2 seconds after a timeout (line 318)
RECURSIVE GroqFrom(_, _, _, _)
GroqFrom(seq, attempt, retries, slept) ==
    IF attempt >= retries
    THEN [value |-> JsonNull, used |-> attempt, waits |-> slept]
    ELSE IF attempt + 1 > Len(seq)
    THEN [value |-> JsonNull, used |-> attempt + 1, waits |-> slept]
    ELSE IF Retryable(seq[attempt + 1]) /\ attempt < retries - 1
    THEN GroqFrom(seq, attempt + 1, retries,
                Append(slept,
                    IF seq[attempt + 1].exc = "Timeout"
                    THEN 2
                    ELSE (attempt + 1) * 2))
    ELSE [value |-> Once(seq[attempt + 1]), used |-> attempt + 1,
          waits |-> slept]

\* what a provider function did: the value it returned, the requests it
\* made, its waits, the temperature it sent and its name
Did(fn, r, temp) ==
    [value |-> r.value, used |-> r.used, waits |-> r.waits,
     temp |-> temp, fn |-> <<fn>>]


\* lines 126-334
generate_with_groq(seq, variation_seed) ==
    Did("generate_with_groq", GroqFrom(seq, 0, retry_count, <<>>),
        <<Temperature(80, variation_seed)>>)

\* lines 494-567 and 570-700: one request
SingleRequest(seq) ==
    IF seq = <<>>
    THEN [value |-> JsonNull, used |-> 1, waits |-> <<>>]
    ELSE [value |-> Once(seq[1]), used |-> 1, waits |-> <<>>]

\* lines 494-567, temperature 0.7 (line 543)
generate_with_grok(seq) ==
    Did("generate_with_grok", SingleRequest(seq), <<70>>)

\* lines 570-700
generate_with_claude(seq, variation_seed) ==
    Did("generate_with_claude", SingleRequest(seq),
        <<Temperature(70, variation_seed)>>)

\* the dispatch with the key not looked at
ProvidedKeyless(provider, key, seq, variation_seed) ==
    CASE provider = Groq -> generate_with_groq(seq, variation_seed)
      [] provider = Claude -> generate_with_claude(seq, variation_seed)
      [] provider = Grok -> generate_with_grok(seq)
      [] OTHER -> [value |-> JsonNull, used |-> 0, waits |-> <<>>,
                   temp |-> <<>>, fn |-> <<>>]

\* lines 851-864: the provider called, if one is selected with a key
Provided(provider, key, seq, variation_seed) ==
    CASE provider = Groq /\ key # "" ->
            generate_with_groq(seq, variation_seed)
      [] provider = Claude /\ key # "" ->
            generate_with_claude(seq, variation_seed)
      [] provider = Grok /\ key # "" -> generate_with_grok(seq)
      [] OTHER -> [value |-> JsonNull, used |-> 0, waits |-> <<>>,
                   temp |-> <<>>, fn |-> <<>>]

\* "if result: return result" without lines 865-866
OrNothing(result, p) == result

\* "if result: return result", else lines 865-866
OrFallback(result, p) ==
    IF Truthy(result) THEN result ELSE generate_fallback(p)

\* lines 849-866
generate_description(p, provider, key, seq, variation_seed) ==
    OrFallback(Provided(provider, key, seq, variation_seed).value, p)

\* the API keys: none entered ("" stands for None and for the empty
\* input alike, both false), or some text
Keys == {"", "gsk_x"}

\* the outcomes a call of the provider with the key goes through: of all
\* the sequences of up to retry_count + 1 outcomes, those of exactly the
\* requests it makes
ConsumedBy ==
    [provider \in Providers, key \in Keys |->
        {seq \in {o : o \in UNION {[1..n -> Replies] :
                                    n \in 0..(retry_count + 1)}} :
            Provided(provider, key, seq, 0).used = Len(seq)}]

\* the column names of the template in file order (lines 1893-1909)
TemplateColumns ==
    <<"property_type", "bhk", "area_sqft", "city", "locality", "landmark",
      "floor_no", "total_floors", "furnishing_status", "rent_amount",
      "deposit_amount", "available_from", "preferred_tenants", "amenities",
      "rough_description">>

\* the largest number of rows of the file the descriptions are made for
MaxRecords == 3

\* the page of a file of rows of the downloaded template with every
\* required field mapped to the column of its name, after "Process All
\* Properties" ran clean_and_process on it (lines 2024-2026)
TemplateProcessed(t) ==
    /\ uploaded = TRUE
    /\ loaded = TRUE
    /\ your_columns = TemplateColumns
    /\ df_original = t
    /\ column_mapping =
           [i \in DOMAIN REQUIRED_FIELDS |->
               <<REQUIRED_FIELDS[i], REQUIRED_FIELDS[i]>>]
    /\ widget = [i \in DOMAIN REQUIRED_FIELDS |-> REQUIRED_FIELDS[i]]
    /\ ran = TRUE
    /\ download = template
    /\ edits = 0
    /\ uploads = 1
    /\ df = apply_mapping(t, your_columns, reverse_mapping(column_mapping))

\* no description requested yet
GenIdle ==
    /\ api_provider = TemplateProvider
    /\ api_key = ""
    /\ results = <<>>
    /\ replies = <<>>
    /\ temperature = <<>>
    /\ waits = <<>>
    /\ called = <<>>

---------------------------------------------------------------------------
(* The single-property page show_single_property.                          *)

\* the defaults of the City and Area/Locality inputs (lines 1014-1024)
Defaults ==
    [city |-> <<"M","u","m","b","a","i">>,
     locality |-> <<"A","n","d","h","e","r","i"," ","W","e","s","t">>]

\* lines 1278-1299 with every other widget at its default: the keys that
\* generate_fallback reads
FormData(c, l, now) ==
    [property_type |-> Lower(<<"F","l","a","t">>),
     bhk |-> <<"1"," ","R","K">>,
     area_sqft |-> 1000,
     city |-> c,
     locality |-> l,
     furnishing_status |-> Lower(<<"U","n","f","u","r","n","i","s","h","e","d">>),
     rent_amount |-> IntCell(25000),
     deposit_amount |-> IntCell(50000),
     available_from |-> Str(DateVal(now)),
     preferred_tenants |-> <<"F","a","m","i","l","y">>]

\* a click handled whatever the inputs hold
NeverRejected(c, l) == FALSE

\* line 1315: not city or not locality
Rejected(c, l) == c = <<>> \/ l = <<>>

\* lines 966-972 on the first run of the page, the inputs at their defaults,
\* no button clicked yet
SingleIdle ==
    /\ generation_count = 0
    /\ generated_result = JsonNull
    /\ property_data = <<>>
    /\ city = Defaults.city
    /\ locality = Defaults.locality
    /\ clicked = ""
    /\ regens = 0
    /\ regens_valid = 0

---------------------------------------------------------------------------
(* State machine.                                                          *)
(*   df          the mapped table (a sequence of rows)                     *)
(*   today       the system date                                           *)
(*   pc          "idle" before the call, "loop" inside it, "done" after    *)
(*   idx         the index label of the next row (RangeIndex: 0, 1, ...)   *)
(*   properties  the list built by the call                                *)
(*   errors      InteractiveParser.errors                                  *)
(*   srcRows     history: the index label of the row of each record        *)

\* InteractiveParser.__init__ (lines 39-40), a table loaded and mapped.
\* The date of the clock is used only for a table without the column
\* available_from (line 70), so it varies for those tables only
Init ==
    /\ IsTable(df)
    /\ today \in {<<2026, 10, 30>>, <<2027, 1, 5>>}
    /\ (df # <<>> /\ "available_from" \in DOMAIN df[1]) =>
          today = <<2026, 10, 30>>
    /\ pc = "idle"
    /\ idx = 0
    /\ properties = <<>>
    /\ errors = <<>>
    /\ srcRows = <<>>
    /\ PageIdle
    /\ GenIdle
    /\ SingleIdle

\* line 60
Call ==
    /\ pc = "idle"
    /\ pc' = "loop"
    /\ idx' = 0
    /\ properties' = <<>>
    /\ UNCHANGED <<df, today, errors, srcRows, uiVars, genVars, singleVars>>

\* Settle with the try around the whole loop: the first failure ends it
SettleAbort(r) ==
    IF r.ok
    THEN /\ properties' = Append(properties, r.rec)
         /\ srcRows' = Append(srcRows, idx)
         /\ idx' = idx + 1
         /\ UNCHANGED <<errors, pc>>
    ELSE /\ errors' = Append(errors, Diagnostic(idx, r))
         /\ pc' = "done"
         /\ UNCHANGED <<properties, srcRows, idx>>

\* Iterate with the try around the whole loop: the first failure ends it
IterateAbort ==
    /\ pc = "loop"
    /\ idx < Len(df)
    /\ SettleAbort(CleanRow(df[idx + 1], today))
    /\ UNCHANGED <<df, today, uiVars, genVars, singleVars>>

\* Settle with each record inserted at the front of the list
SettlePrepend(r) ==
    IF r.ok
    THEN /\ properties' = <<r.rec>> \o properties
         /\ srcRows' = <<idx>> \o srcRows
         /\ UNCHANGED errors
    ELSE /\ errors' = Append(errors, Diagnostic(idx, r))
         /\ UNCHANGED <<properties, srcRows>>

\* lines 76-94: the record is appended, or the diagnostic is
Settle(r) ==
    IF r.ok
    THEN /\ properties' = Append(properties, r.rec)
         /\ srcRows' = Append(srcRows, idx)
         /\ UNCHANGED errors
    ELSE /\ errors' = Append(errors, Diagnostic(idx, r))
         /\ UNCHANGED <<properties, srcRows>>

\* lines 62-94: one iteration of the loop
Iterate ==
    /\ pc = "loop"
    /\ idx < Len(df)
    /\ Settle(CleanRow(df[idx + 1], today))
    /\ idx' = idx + 1
    /\ UNCHANGED <<df, today, pc, uiVars, genVars, singleVars>>

\* line 96
Return ==
    /\ pc = "loop"
    /\ idx = Len(df)
    /\ pc' = "done"
    /\ UNCHANGED <<df, today, idx, properties, errors, srcRows, uiVars,
                   genVars, singleVars>>

Next == Call \/ Iterate \/ Return

Spec == Init /\ [][Next]_vars

---------------------------------------------------------------------------
(* Vocabulary of the claims.                                               *)

\* the index labels of the rows the loop has gone through
Processed == 0..(idx - 1)

\* row i produced a record
Emitted(i) == \E j \in DOMAIN srcRows : srcRows[j] = i

\* the record of row i
RecordOf(i) == properties[CHOOSE j \in DOMAIN srcRows : srcRows[j] = i]

\* a diagnostic carries the spreadsheet row number of row i
Diagnosed(i) == \E j \in DOMAIN errors : errors[j].row = i + 2

\* the cell of column f is missing: no such column, or an empty cell
Missing(row, f) == f \notin DOMAIN row \/ row[f].k = "nan"

\* every field outside F holds the cell of a template row
ValidExcept(row, F) ==
    \E t \in {TemplateRow1, TemplateRow2} :
        \A g \in Fields \ F : g \in DOMAIN row /\ row[g] = t[g]

NumberFields == {"area_sqft", "rent_amount", "deposit_amount"}

\* some required field is missing, is no number where a number is needed,
\* or is empty once trimmed (available_from aside: its absence has a
\* documented default, the subject of C5 and C6)
RequiredInvalid(row) ==
    \E f \in Required \ {"available_from"} :
        \/ Missing(row, f)
        \/ f \in NumberFields /\ ~Float(row[f]).ok
        \/ row[f].k = "str" /\ Strip(row[f].s) = <<>>

---------------------------------------------------------------------------
(* Claims.                                                                 *)

\* C1: a row in which any required field is missing, is an unparsable
\* number or is empty after trimming yields no record, and a diagnostic is
\* recorded for it instead.
C1_RejectsInvalidRequired ==
    \A i \in Processed :
        RequiredInvalid(df[i + 1]) => ~Emitted(i) /\ Diagnosed(i)

\* C2: a row whose rent_amount is missing (empty cell, or no such column)
\* while every other field is valid yields no record, and its diagnostic
\* names rent_amount and carries the row's number.
C2_MissingRentRejected ==
    \A i \in Processed :
        (Missing(df[i + 1], "rent_amount") /\ ValidExcept(df[i + 1], {"rent_amount"}))
            => /\ ~Emitted(i)
               /\ \E j \in DOMAIN errors :
                    errors[j].row = i + 2 /\ errors[j].key = "rent_amount"

\* C3: the call never aborts on a bad row: every row gone through is exactly
\* one of a record or a diagnostic, and when the call returns every row of
\* the table has been gone through (records + diagnostics = n).
C3_EveryRowSettled ==
    /\ Len(properties) + Len(errors) = idx
    /\ \A i \in Processed : Emitted(i) # Diagnosed(i)
    /\ pc = "done" => idx = Len(df)

\* the call returned from a three-row table whose first row failed and
\* whose last row produced a record
C3_Witness ==
    /\ pc = "done"
    /\ Len(df) = 3
    /\ Diagnosed(0)
    /\ Emitted(2)

\* C4: the records keep the source row order: a record that comes earlier
\* in the list comes from an earlier row, and each record is the one its
\* row normalises to.
C4_RecordsInRowOrder ==
    /\ Len(srcRows) = Len(properties)
    /\ \A j, k \in DOMAIN srcRows : j < k => srcRows[j] < srcRows[k]
    /\ \A j \in DOMAIN srcRows :
            properties[j] = CleanRow(df[srcRows[j] + 1], today).rec

\* two different records were produced around a failing row
C4_Witness ==
    /\ pc = "done"
    /\ srcRows = <<0, 2>>
    /\ Diagnosed(1)
    /\ properties[1] # properties[2]

\* C5: an unparsable textual available_from does not reject the row: with
\* every other field valid the row yields a record whose available_from
\* is the current system date.
C5_BadDateDefaultsToToday ==
    \A i \in Processed :
        LET row == df[i + 1]
        IN  ( /\ ValidExcept(row, {"available_from"})
              /\ "available_from" \in DOMAIN row
              /\ row["available_from"].k = "str"
              /\ ~ToDatetime(row["available_from"].s).ok )
            => Emitted(i) /\ RecordOf(i)["available_from"] = IsoText(today)

\* C6: when available_from is absent for a row (no such column, or an
\* empty cell) the record's available_from is the current system date.
C6_AbsentDateIsToday ==
    \A i \in Processed :
        (Missing(df[i + 1], "available_from") /\ Emitted(i))
            => RecordOf(i)["available_from"] = IsoText(today)

\* the amenities list the claim describes
SplitTrimmed(s, sep) ==
    LET parts == Split(s, sep) IN [i \in DOMAIN parts |-> Strip(parts[i])]

DocumentedAmenities(row) ==
    IF Missing(row, "amenities") THEN <<>>
    ELSE LET s == Str(row["amenities"])
         IN  IF \E i \in DOMAIN s : s[i] = "," THEN SplitTrimmed(s, ",")
             ELSE IF \E i \in DOMAIN s : s[i] = ";" THEN SplitTrimmed(s, ";")
             ELSE <<Strip(s)>>

\* C7: amenities is the empty list for an absent or empty cell; otherwise
\* the text split on commas if it has one, else on semicolons if it has
\* one, else a single element; every element trimmed.
C7_AmenitiesSplit ==
    \A i \in Processed :
        Emitted(i) => RecordOf(i)["amenities"] = DocumentedAmenities(df[i + 1])

\* C8: a row whose ten required fields are present and well-typed never
\* yields an error, whatever the optional fields hold.
C8_ValidRequiredNeverFails ==
    \A i \in Processed :
        ValidExcept(df[i + 1], Optional) => Emitted(i) /\ ~Diagnosed(i)

\* C9: a row missing only optional fields yields a record with the defaults:
\* empty text for landmark and rough_description, None for floor_no and
\* total_floors, the empty list for amenities (None, the empty text and
\* the empty list are all <<>> here), whether the column
\* is not in the table or the cell is empty.
C9_OptionalDefaults ==
    \A i \in Processed :
        LET row == df[i + 1]
            gone == {g \in Optional : Missing(row, g)}
        IN  (gone # {} /\ ValidExcept(row, gone))
            => Emitted(i) /\ \A g \in gone : RecordOf(i)[g] = <<>>

\* the 1-based positions of the rows gone through that fail
FailedRows == {k \in 1..idx : ~CleanRow(df[k], today).ok}

\* C10: the diagnostic of a rejected row carries the spreadsheet row number
\* with the header as row 1: the k-th data row is reported as row k + 1,
\* one diagnostic per rejected row, in row order.
C10_RowNumberCountsHeader ==
    /\ Len(errors) = Cardinality(FailedRows)
    /\ {errors[j].row : j \in DOMAIN errors} = {k + 1 : k \in FailedRows}
    /\ \A j, k \in DOMAIN errors : j < k => errors[j].row < errors[k].row

\* the third data row was rejected after the first produced a record, and
\* is reported as row 4
C10_Witness ==
    /\ pc = "done"
    /\ Emitted(0)
    /\ Len(errors) = 1
    /\ errors[1].row = 4
    /\ ~CleanRow(df[3], today).ok

---------------------------------------------------------------------------
(* The column-mapping page as a state machine (SpecMap, SpecGate).         *)
(*   uploaded        the uploader holds a file                             *)
(*   loaded          read_file returned its table in the latest run        *)
(*   your_columns    list(df.columns) of that file                         *)
(*   df_original     st.session_state.df_original: the rows of the file    *)
(*   column_mapping  st.session_state.column_mapping                       *)
(*   widget          the option the selectbox of the i-th field shows      *)
(*   ran             the latest run of the script called clean_and_process *)
(*   download        the template table the user downloaded                *)
(*   edits, uploads  how often the user changed a choice, gave a file      *)
(* Every step of the user runs the script top to bottom once.              *)

\* the user changes a made choice, or picks out of turn, at most so often
MaxEdits == 1

\* the user gives a file at most so often
MaxUploads == 3

\* lines 874-878: a new session, no file given yet
InitMap ==
    /\ df = <<>>
    /\ today = <<2026, 10, 30>>
    /\ pc = "idle"
    /\ idx = 0
    /\ properties = <<>>
    /\ errors = <<>>
    /\ srcRows = <<>>
    /\ PageIdle
    /\ GenIdle
    /\ SingleIdle

\* lines 1927-2005 and 2090-2092: one run of the script that does not
\* process, on the file of columns cols and rows rows, the selectboxes
\* returning w
Rerun(cols, rows, w) ==
    /\ uploaded' = TRUE
    /\ loaded' = TRUE
    /\ your_columns' = cols
    /\ df_original' = rows
    /\ widget' = w
    /\ column_mapping' = MapFields(column_mapping, w, 1)
    /\ ran' = FALSE
    /\ df' = <<>>
    /\ properties' = <<>>
    /\ errors' = <<>>
    /\ srcRows' = <<>>
    /\ results' = <<>>
    /\ UNCHANGED <<today, pc, idx, api_provider, api_key, replies,
                   temperature, waits, called, singleVars>>

\* a run of the script that renders nothing below the uploader: without
\* a file (line 1927) or with one read_file returned None for (line 1931).
\* The session keeps column_mapping and df_original; the selectboxes are
\* not drawn, so the session drops what they showed.  errs is what the
\* run's parser holds in its errors
Unrendered(file, errs) ==
    /\ uploaded' = file
    /\ loaded' = FALSE
    /\ your_columns' = <<>>
    /\ widget' = [i \in DOMAIN REQUIRED_FIELDS |-> Placeholder]
    /\ ran' = FALSE
    /\ df' = <<>>
    /\ properties' = <<>>
    /\ errors' = errs
    /\ srcRows' = <<>>
    /\ results' = <<>>
    /\ UNCHANGED <<today, pc, idx, api_provider, api_key, replies,
                   temperature, waits, called, singleVars, df_original,
                   column_mapping>>

\* the files of the page: whether pandas can read the file (lines 44-49),
\* its columns in file order and the rows read.  Two files of one column
\* and a file pd.read_csv or pd.read_excel raises on
Files ==
    {[readable |-> TRUE,
      columns  |-> <<"Rent">>,
      rows     |-> << ("Rent" :> IntCell(25000)) >>],
     [readable |-> TRUE,
      columns  |-> <<"NOT MAPPED">>,
      rows     |-> << ("NOT MAPPED" :> StrCell(<<"H","S","R">>)) >>],
     [readable |-> FALSE, columns |-> <<>>, rows |-> <<>>]}

\* a file of files is put into the uploader (line 1925).  A file pandas reads:
\* the selectboxes get new options and show their defaults; the file of
\* the same columns again leaves the options and so the choices as they
\* are.  A file pandas raises on: read_file appends "Error: ..." to the
\* errors of the parser, kept here as the diagnostic of row 0, and returns
\* None (lines 50-52)
Upload(files) ==
    /\ uploads < MaxUploads
    /\ \E file \in files :
          \/ /\ file.readable
             /\ Rerun(file.columns, file.rows,
                      IF loaded /\ file.columns = your_columns
                      THEN widget
                      ELSE DefaultWidget(column_mapping, file.columns))
          \/ /\ ~file.readable
             /\ Unrendered(TRUE, <<[row |-> 0, exc |-> "Exception",
                                    key |-> "", txt |-> <<>>]>>)
    /\ uploads' = uploads + 1
    /\ UNCHANGED <<download, edits>>

\* the file is taken out of the uploader: line 1927 is false
Remove ==
    /\ uploaded
    /\ Unrendered(FALSE, <<>>)
    /\ UNCHANGED <<download, edits, uploads>>

\* a click on a download button: one of the template (lines 1915 and
\* 1920), where the browser gets the template, or the one of the
\* descriptions (line 2075), drawn by the run that processed the file once
\* its loop has made a description for every record.  The script runs
\* again with no input changed, so that st.button of line 2024 is False
Download ==
    /\ \/ download' = template
       \/ /\ ran
          /\ properties # <<>>
          /\ Len(results) = Len(properties)
          /\ UNCHANGED download
    /\ IF loaded
       THEN Rerun(your_columns, df_original, widget)
       ELSE Unrendered(uploaded, errors)
    /\ UNCHANGED <<edits, uploads>>

\* the user sets the selectbox of the i-th field to choice
Select(i, choice) ==
    Rerun(your_columns, df_original, [widget EXCEPT ![i] = choice])

\* the first required field without an entry gets a column: the column
\* of its name when the file has one, any column otherwise (Edit makes
\* the other choices)
MapNext ==
    /\ loaded
    /\ \E i \in DOMAIN REQUIRED_FIELDS :
          /\ ~Has(column_mapping, REQUIRED_FIELDS[i])
          /\ \A j \in 1..(i - 1) : Has(column_mapping, REQUIRED_FIELDS[j])
          /\ \E k \in DOMAIN your_columns :
                /\ In(your_columns, REQUIRED_FIELDS[i])
                      => your_columns[k] = REQUIRED_FIELDS[i]
                /\ Select(i, your_columns[k])
    /\ UNCHANGED <<download, edits, uploads>>

\* the selectbox of the first, the second or the last field is set to
\* another of its options: the placeholder, the first column or the last
Edit ==
    /\ loaded
    /\ edits < MaxEdits
    /\ \E i \in {1, 2, Len(REQUIRED_FIELDS)} :
       \E k \in {1, 2, Len(your_columns) + 1} :
          /\ Options(your_columns)[k] # widget[i]
          /\ Select(i, Options(your_columns)[k])
    /\ edits' = edits + 1
    /\ UNCHANGED <<download, uploads>>

\* a call of generate_description that Streamlit ended at an st.* call
\* after n of the requests seq: at the warning before the wait that
\* follows a request tried again (lines 292 and 317), or, all requests
\* made and nothing usable returned, at the st.error of the provider
\* function or the st.info of line 865, before generate_fallback
Stopped(seq, n, variation_seed) ==
    /\ n < Len(seq) => n >= 1
    /\ n = Len(seq) =>
          ~Truthy(Provided(api_provider, api_key, seq, variation_seed).value)
    /\ replies' = SubSeq(seq, 1, n)
    /\ temperature' = Provided(api_provider, api_key, seq, variation_seed).temp
    /\ waits' =
          IF n < Len(seq)
          THEN SubSeq(Provided(api_provider, api_key, seq,
                               variation_seed).waits, 1, n - 1)
          ELSE Provided(api_provider, api_key, seq, variation_seed).waits
    /\ called' =
          <<"generate_description">>
            \o Provided(api_provider, api_key, seq, variation_seed).fn

\* what the latest call of generate_description did: the outcomes of its
\* requests, the temperature sent, the waits made, and the functions
\* entered, in order
Observed(seq, variation_seed) ==
    /\ replies' = seq
    /\ temperature' = Provided(api_provider, api_key, seq, variation_seed).temp
    /\ waits' = Provided(api_provider, api_key, seq, variation_seed).waits
    /\ called' =
          <<"generate_description">>
            \o Provided(api_provider, api_key, seq, variation_seed).fn
            \o (IF Truthy(Provided(api_provider, api_key, seq,
                                   variation_seed).value)
                THEN <<>>
                ELSE <<"generate_fallback">>)

\* lines 2014-2041: the mapped table t is processed into out; the loop
\* of lines 2036-2041 runs to its end or Streamlit ends the run after n
\* records, for a provider that makes no request (SpecGen takes the loop
\* step by step, with the requests).  No call was made (no
\* record, or the run ended at line 2037 for the first), or the latest
\* call returned, or the run ended inside the call that follows, at the
\* st.info of line 865
Processing(t, out) ==
    /\ ran' = TRUE
    /\ df' = t
    /\ properties' = out.properties
    /\ errors' = out.errors
    /\ srcRows' = out.srcRows
    /\ \E n \in 0..Len(out.properties) :
          /\ results' =
                [i \in 1..n |->
                    [property |-> out.properties[i],
                     description |->
                        generate_description(out.properties[i],
                            api_provider, api_key, <<>>, 0)]]
          /\ \/ /\ n = 0
                /\ UNCHANGED <<replies, temperature, waits, called>>
             \/ /\ n > 0
                /\ Observed(<<>>, 0)
             \/ /\ n < Len(out.properties)
                /\ Stopped(<<>>, 0, 0)
    /\ column_mapping' = MapFields(column_mapping, widget, 1)
    /\ UNCHANGED <<today, pc, idx, api_provider, api_key, singleVars,
                   uploaded, loaded, your_columns, df_original, widget,
                   download, edits, uploads>>

\* Process with the button shown whatever the mapping holds
ProcessUngated ==
    /\ loaded
    /\ Processing(
          apply_mapping(df_original, your_columns,
                        reverse_mapping(column_mapping)),
          clean_and_process(
              apply_mapping(df_original, your_columns,
                            reverse_mapping(column_mapping)),
              today))

\* lines 2007-2089: "Process All Properties", shown when all_mapped holds
Process ==
    /\ loaded
    /\ all_mapped(column_mapping)
    /\ Processing(
          apply_mapping(df_original, your_columns,
                        reverse_mapping(column_mapping)),
          clean_and_process(
              apply_mapping(df_original, your_columns,
                            reverse_mapping(column_mapping)),
              today))

NextMap ==
    Upload(Files) \/ Remove \/ Download \/ MapNext \/ Edit \/ Process

SpecMap == InitMap /\ [][NextMap]_vars

\* the page in a session whose file has the columns of the template: its
\* first row and that row with text for the area
NextGate ==
    \/ Upload({[readable |-> TRUE,
                columns  |-> TemplateColumns,
                rows     |-> <<TemplateRow1, BadAreaRow>>]})
    \/ Remove
    \/ Download
    \/ MapNext
    \/ Edit
    \/ Process

SpecGate == InitMap /\ [][NextGate]_vars

---------------------------------------------------------------------------
(* The description loop of the page as a state machine (SpecGen).          *)
(*   api_provider, api_key  the sidebar's selection and input              *)
(*   results   the list built by lines 2034-2041                           *)
(*   replies   the outcomes of the requests that the latest call of        *)
(*             generate_description made                                   *)
(*   idx       the loop index of line 2036                                 *)
(*   pc        "processed" after line 2026; inside the loop "generate"     *)
(*             before the call of line 2038, "described" when it has       *)
(*             returned, "pause" in the time.sleep(0.5) of line 2041;      *)
(*             "stopped" when Streamlit ended the run inside the loop;     *)
(*             "invalid" without records (line 2086); after the loop       *)
(*             "download" with the result table built, or "KeyError" or    *)
(*             "TypeError" when building it raised that                    *)

\* the file of n rows made from the template: its two rows and the first
\* with text for the area, in that order again and again
GenTable(n) ==
    [k \in 1..n |->
        <<TemplateRow1, TemplateRow2, BadAreaRow>>[((k - 1) % 3) + 1]]

\* line 2026 has returned for a file of at most MaxRecords rows
InitGen ==
    /\ today = <<2026, 10, 30>>
    /\ \E n \in 0..MaxRecords : TemplateProcessed(GenTable(n))
    /\ properties = clean_and_process(df, today).properties
    /\ errors = clean_and_process(df, today).errors
    /\ srcRows = clean_and_process(df, today).srcRows
    /\ pc = "processed"
    /\ idx = 0
    /\ SingleIdle
    /\ api_provider \in Providers
    /\ api_key \in Keys
    /\ api_provider = TemplateProvider => api_key = ""
    /\ results = <<>>
    /\ replies = <<>>
    /\ temperature = <<>>
    /\ waits = <<>>
    /\ called = <<>>

\* lines 2028-2033 and 2085-2089
Begin ==
    /\ pc = "processed"
    /\ pc' = IF properties # <<>> THEN "generate" ELSE "invalid"
    /\ idx' = 0
    /\ results' = <<>>
    /\ UNCHANGED <<df, today, properties, errors, srcRows, uiVars,
                   api_provider, api_key, replies, temperature, waits,
                   called, singleVars>>

\* line 2038: generate_description is called and returns; seq holds the
\* outcome of each request the call makes
Generate ==
    /\ pc = "generate"
    /\ idx < Len(properties)
    /\ \E seq \in ConsumedBy[api_provider, api_key] : Observed(seq, 0)
    /\ pc' = "described"
    /\ UNCHANGED <<df, today, idx, properties, errors, srcRows, uiVars,
                   api_provider, api_key, results, singleVars>>

\* AppendResult with a record skipped when the provider gave nothing
AppendDropFailed ==
    /\ pc = "described"
    /\ results' =
          IF Truthy(Provided(api_provider, api_key, replies, 0).value)
          THEN Append(results,
                  [property |-> properties[idx + 1],
                   description |->
                      generate_description(properties[idx + 1],
                          api_provider, api_key, replies, 0)])
          ELSE results
    /\ pc' = "pause"
    /\ UNCHANGED <<df, today, idx, properties, errors, srcRows, uiVars,
                   api_provider, api_key, replies, temperature, waits,
                   called, singleVars>>

\* line 2039: the record and what the call returned are appended
AppendResult ==
    /\ pc = "described"
    /\ results' =
          Append(results,
              [property |-> properties[idx + 1],
               description |->
                  generate_description(properties[idx + 1],
                      api_provider, api_key, replies, 0)])
    /\ pc' = "pause"
    /\ UNCHANGED <<df, today, idx, properties, errors, srcRows, uiVars,
                   api_provider, api_key, replies, temperature, waits,
                   called, singleVars>>

\* lines 2040-2041 and 2036-2037: the progress bar is moved, time.sleep(0.5)
\* returns and the loop goes on to the next record
Pause ==
    /\ pc = "pause"
    /\ idx' = idx + 1
    /\ pc' = "generate"
    /\ UNCHANGED <<df, today, properties, errors, srcRows, uiVars, genVars,
                   singleVars>>

\* the user touches a widget while the loop runs, and Streamlit ends the
\* run at the next st.* call: the status text of line 2037, a call inside
\* generate_description, or the progress bar of line 2040.  The results
\* built so far are left without a result table
StopRun ==
    /\ \/ /\ pc = "generate"
          /\ idx < Len(properties)
          /\ UNCHANGED <<replies, temperature, waits, called>>
       \/ /\ pc = "generate"
          /\ idx < Len(properties)
          /\ \E seq \in ConsumedBy[api_provider, api_key] :
             \E n \in 0..Len(seq) : Stopped(seq, n, 0)
       \/ /\ pc = "pause"
          /\ UNCHANGED <<replies, temperature, waits, called>>
    /\ pc' = "stopped"
    /\ UNCHANGED <<df, today, idx, properties, errors, srcRows, uiVars,
                   api_provider, api_key, results, singleVars>>

\* the exception that lines 2059-2065 raise for description j, "" when
\* they raise none: a value that is no dict has no d['title']; the keys
\* are read in the order of DocFields, a key the dict lacks raises
\* KeyError, and str.join raises TypeError for a bullet_points or
\* seo_keywords that is no iterable of texts.  A list of texts, a text
\* (its characters are joined) and a dict (its keys are joined) are; a
\* number, null, true and a list that holds anything but texts are not
Reading(j) ==
    IF j.t # "dict" THEN "TypeError"
    ELSE LET bad == {i \in DOMAIN DocFields :
                        \/ DocFields[i] \notin DOMAIN j.d
                        \/ /\ DocFields[i] \in ListFields
                           /\ j.d[DocFields[i]].t
                                 \notin {"list", "str", "dict"}}
         IN  IF bad = {} THEN ""
             ELSE IF DocFields[CHOOSE i \in bad : \A k \in bad : i <= k]
                        \in DOMAIN j.d
                  THEN "TypeError"
                  ELSE "KeyError"

\* lines 2043-2084: the result table is built item by item and offered for
\* download, or the first item that cannot be read raises
Output ==
    /\ pc = "generate"
    /\ idx = Len(properties)
    /\ pc' = IF \A i \in DOMAIN results : Reading(results[i].description) = ""
             THEN "download"
             ELSE Reading(results[
                     CHOOSE i \in DOMAIN results :
                        /\ Reading(results[i].description) # ""
                        /\ \A k \in 1..(i - 1) :
                              Reading(results[k].description) = ""
                  ].description)
    /\ UNCHANGED <<df, today, idx, properties, errors, srcRows, uiVars,
                   genVars, singleVars>>

NextGen == Begin \/ Generate \/ AppendResult \/ Pause \/ StopRun \/ Output

SpecGen == InitGen /\ [][NextGen]_vars

---------------------------------------------------------------------------
(* Claims about the column-mapping page (SpecMap).                         *)

\* the required fields without an entry in m, in declaration order
Unmapped(m) == SelectSeq(REQUIRED_FIELDS, LAMBDA f : ~Has(m, f))

\* the rows of the summary that carry the cross
MissingRows(m) == SelectSeq(SummaryRows(m), LAMBDA r : r.status = "missing")

\* the fields the summary reports as not mapped, top to bottom
ReportedMissing(m) == [k \in DOMAIN MissingRows(m) |-> MissingRows(m)[k].field]

\* C11: with a file read and on the page, the fields reported as missing are
\* exactly the required fields that have no mapping entry, in declaration
\* order, their number is the count the page warns with, and on an empty
\* mapping that count is all ten.
C11_MissingRequiredFields ==
    loaded =>
        /\ column_mapping # <<>> =>
               ReportedMissing(column_mapping) = Unmapped(column_mapping)
        /\ missing_count(column_mapping) = Len(Unmapped(column_mapping))
        /\ column_mapping = <<>> =>
               /\ Unmapped(column_mapping) = REQUIRED_FIELDS
               /\ missing_count(column_mapping) = 10

\* C12: clean_and_process is called only in a run in which every required
\* field has a mapping entry; while one is missing no record and no
\* description is produced.
C12_ProcessingGated ==
    /\ ran => all_mapped(column_mapping)
    /\ ~all_mapped(column_mapping) => properties = <<>> /\ results = <<>>

\* a run behind the gate called clean_and_process, which made a record of
\* the first row and a diagnostic of the second, and the record was
\* described
C12_Witness ==
    /\ ran
    /\ all_mapped(column_mapping)
    /\ Len(df_original) = 2
    /\ Len(properties) = 1
    /\ Len(errors) = 1
    /\ Len(results) = 1

\* C13: when the user sets the selectbox of a mapped field back to
\* '-- Select Column --', the mapping has no entry for that field
\* afterwards and processing is gated.
C13_SkipRemovesEntry ==
    [][\A i \in DOMAIN REQUIRED_FIELDS :
          ( /\ uploads' = uploads
            /\ loaded /\ loaded'
            /\ widget[i] # Placeholder
            /\ widget'[i] = Placeholder )
          => /\ ~Has(column_mapping', REQUIRED_FIELDS[i])
             /\ ~all_mapped(column_mapping')]_vars

\* C14: after another file is uploaded and read in the session, the mapping holds
\* no entry made for the previous file, and no entry that names a column
\* the current file does not have.
C14_FreshMappingPerFile ==
    [][(uploads' # uploads /\ uploads >= 1 /\ loaded') =>
          \A k \in DOMAIN column_mapping' :
              /\ In(your_columns', column_mapping'[k][2])
              /\ \A j \in DOMAIN column_mapping :
                    column_mapping[j] # column_mapping'[k]]_vars

\* C15: the mapping is one-to-one in every state: no field has two
\* entries and no source column is the entry of two fields.
C15_OneToOne ==
    \A j, k \in DOMAIN column_mapping :
        j # k => /\ column_mapping[j][1] # column_mapping[k][1]
                 /\ column_mapping[j][2] # column_mapping[k][2]

\* the alias table the documentation gives: its examples for the rent,
\* and the headers of its end-to-end scenario
DocumentedAliases(f) ==
    CASE f = "property_type" -> {"property_type", "Property Type"}
      [] f = "bhk" -> {"bhk", "BHK"}
      [] f = "area_sqft" -> {"area_sqft", "Area (sqft)"}
      [] f = "city" -> {"city", "City"}
      [] f = "locality" -> {"locality", "Area"}
      [] f = "furnishing_status" -> {"furnishing_status", "Furnishing"}
      [] f = "rent_amount" ->
            {"rent_amount", "rent", "Rent", "Rent Amount", "Monthly Rent"}
      [] f = "deposit_amount" -> {"deposit_amount", "Deposit Amount"}
      [] f = "available_from" -> {"available_from", "Available From"}
      [] f = "preferred_tenants" -> {"preferred_tenants", "Tenant Type"}

\* C16: when a file is uploaded, every column whose name is an alias of a
\* required field is mapped to that field without any selection.
C16_AliasesDetected ==
    [][uploads' # uploads =>
          \A i \in DOMAIN REQUIRED_FIELDS : \A k \in DOMAIN your_columns' :
              your_columns'[k] \in DocumentedAliases(REQUIRED_FIELDS[i])
                  => DictGet(column_mapping', REQUIRED_FIELDS[i], "")
                         \in DocumentedAliases(REQUIRED_FIELDS[i])]_vars

---------------------------------------------------------------------------
(* Claims about the description loop (SpecGen).                            *)

\* the latest call's last request failed: an exception, a status other
\* than 200, or a 200 response whose content is no JSON
LastFailed(seq) ==
    /\ seq # <<>>
    /\ \/ seq[Len(seq)].exc # ""
       \/ seq[Len(seq)].status # 200
       \/ seq[Len(seq)].body \in {"garbage", "nochoices"}

\* C17: whenever the provider fails (a status other than 200, a rate
\* limit through every retry, a timeout, invalid JSON, any exception) or
\* no provider is called at all, generate_description returns the
\* document of generate_fallback; it never returns nothing.
C17_FallbackOnFailure ==
    pc = "pause" =>
        /\ (replies = <<>> \/ LastFailed(replies)) =>
               results[Len(results)].description
                   = generate_fallback(results[Len(results)].property)
        /\ Truthy(results[Len(results)].description)

\* Groq was rate limited through all three attempts and the record got
\* the fallback document
C17_Witness ==
    /\ pc = "pause"
    /\ api_provider = Groq
    /\ Len(replies) = retry_count
    /\ \A k \in DOMAIN replies : replies[k] = Http(429, "")
    /\ results[Len(results)].description
           = generate_fallback(results[Len(results)].property)

\* C18: every description generate_description returned is a document
\* with all seven fields, whether a provider or the fallback made it.
C18_AllSevenFields ==
    \A i \in DOMAIN results :
        /\ results[i].description.t = "dict"
        /\ DOMAIN results[i].description.d = DocFieldSet

\* the property types the schema names (line 27)
SupportedTypes ==
    {<<"f","l","a","t">>, <<"v","i","l","l","a">>, <<"p","g">>,
     <<"s","h","o","p">>, <<"o","f","f","i","c","e">>}

\* C19: the columns of the downloaded template are exactly the fifteen
\* canonical fields, and it has one example row for each supported
\* property type.
C19_TemplateMatchesSchema ==
    download # <<>> =>
        /\ \A k \in DOMAIN download : DOMAIN download[k] = Fields
        /\ Cardinality(Fields) = 15
        /\ \A ty \in SupportedTypes :
              Cardinality({k \in DOMAIN download :
                  download[k]["property_type"] = StrCell(ty)}) = 1

\* C20: the loop makes one result per record, in record order, each with
\* a description that is not empty; after the loop there are as many
\* results as records.
C20_OneDescriptionPerRecord ==
    /\ pc \in {"generate", "described"} => Len(results) = idx
    /\ pc = "pause" => Len(results) = idx + 1
    /\ pc \in {"download", "KeyError", "TypeError"} =>
          Len(results) = Len(properties)
    /\ Len(results) <= Len(properties)
    /\ \A i \in DOMAIN results :
          /\ results[i].property = properties[i]
          /\ Truthy(results[i].description)

\* the loop ended for two records, the first described by the provider
\* and the second, after a failure, by the fallback
C20_Witness ==
    /\ pc = "download"
    /\ Len(results) = 2
    /\ results[1].description = FullDocument
    /\ LastFailed(replies)
    /\ results[2].description = generate_fallback(properties[2])

---------------------------------------------------------------------------
(* SpecSingle: the single-property page.  A rerun of show_single_property *)
(* after an input changed is one step; a rerun after a click on Generate   *)
(* or on Regenerate is three: the handler up to the call of                *)
(* generate_description (then pc = "call"), the call (then pc =            *)
(* "returned") and the write of its result, unless Streamlit ends the run  *)
(* before.                                                                 *)
(*   clicked        the button the latest rerun handled ("" for none)      *)
(*   regens         the Regenerate clicks that passed validation since the *)
(*                  most recent Generate click                             *)
(*   regens_valid   the same, since the most recent Generate click that    *)
(*                  passed validation                                      *)
(*   called, replies, temperature, waits: of the latest click, once its    *)
(*                  call has returned or its run has ended; of the click   *)
(*                  before while pc = "call"                               *)
(* Not modelled: the display of the kept result (lines 1342-1445), which   *)
(* raises TypeError on result['title'] in every run while the result is    *)
(* no dict; the second copy of the form that follows in the same           *)
(* function (lines 1447-1886).  Its first widget repeats the one of line   *)
(* 983, at which Streamlit stops the run with a DuplicateWidgetID error,   *)
(* after the handler of lines 1313-1339 has run; it writes no session      *)
(* state.                                                                  *)

\* the largest generation_count the page is taken to
MaxRegens == 7

\* the outcomes a call made by the page goes through, each request
\* getting a document, a JSON list, a rate limit or a refused key
PageOutcomes(provider, key) ==
    {seq \in ConsumedBy[provider, key] :
        \A k \in DOMAIN seq :
            seq[k] \in {Http(200, "document"), Http(200, "list"),
                        Http(429, ""), Http(401, "")}}

\* the page is opened with a provider selected in the sidebar
InitSingle ==
    /\ df = <<>>
    /\ today = <<2026, 10, 30>>
    /\ pc = "idle"
    /\ idx = 0
    /\ properties = <<>>
    /\ errors = <<>>
    /\ srcRows = <<>>
    /\ PageIdle
    /\ api_provider \in Providers
    /\ api_key \in Keys
    /\ api_provider = TemplateProvider => api_key = ""
    /\ results = <<>>
    /\ replies = <<>>
    /\ temperature = <<>>
    /\ waits = <<>>
    /\ called = <<>>
    /\ SingleIdle

\* a rerun after the text of an input changed, each input cleared or at
\* its default: no button is clicked and line 1313 is false
Type ==
    /\ pc = "idle"
    /\ \E c \in {<<>>, Defaults.city} : \E l \in {<<>>, Defaults.locality} :
          /\ <<c, l>> # <<city, locality>>
          /\ city' = c
          /\ locality' = l
    /\ clicked' = ""
    /\ UNCHANGED <<parseVars, uiVars, genVars, generation_count,
                   generated_result, property_data, regens, regens_valid>>

\* Generate counted like Regenerate
NextCountKept(button) == generation_count + 1

\* lines 1323-1327
NextCount(button) ==
    IF button = "regenerate" THEN generation_count + 1 ELSE 0

\* lines 1313-1327 for the button clicked: the validation, and, passed,
\* the writes of property_data and generation_count that come before the
\* call of generate_description
Handle(button) ==
    /\ pc = "idle"
    /\ clicked' = button
    /\ IF Rejected(city, locality)
       THEN /\ called' = <<"st.error">>
            /\ replies' = <<>>
            /\ temperature' = <<>>
            /\ waits' = <<>>
            /\ regens' = IF button = "generate" THEN 0 ELSE regens
            /\ UNCHANGED <<pc, generation_count, generated_result,
                           property_data, regens_valid>>
       ELSE /\ pc' = "call"
            /\ UNCHANGED <<called, replies, temperature, waits>>
            /\ property_data' = FormData(city, locality, today)
            /\ generation_count' = NextCount(button)
            /\ regens' = IF button = "generate" THEN 0 ELSE regens + 1
            /\ regens_valid' =
                  IF button = "generate" THEN 0 ELSE regens_valid + 1
            /\ UNCHANGED generated_result
    /\ UNCHANGED <<df, today, idx, properties, errors, srcRows, uiVars,
                   api_provider, api_key, results, city, locality>>

\* line 1305: a click on "Generate Premium Description"
ClickGenerate == Handle("generate")

\* lines 1308-1310: a click on "Regenerate", disabled while there is no
\* result
ClickRegenerate ==
    /\ generated_result # JsonNull
    /\ generation_count < MaxRegens
    /\ Handle("regenerate")

\* lines 1330-1335: generate_description is called and returns inside the
\* spinner block; seq holds the outcomes of the requests it made
Spinner ==
    /\ pc = "call"
    /\ \E seq \in PageOutcomes(api_provider, api_key) :
          Observed(seq, generation_count)
    /\ pc' = "returned"
    /\ UNCHANGED <<df, today, idx, properties, errors, srcRows, uiVars,
                   api_provider, api_key, results, singleVars>>

\* lines 1337-1339: what the call returned is kept in the session when it
\* is truthy
Finish ==
    /\ pc = "returned"
    /\ generated_result' =
          IF Truthy(generate_description(property_data, api_provider,
                        api_key, replies, generation_count))
          THEN generate_description(property_data, api_provider,
                   api_key, replies, generation_count)
          ELSE generated_result
    /\ pc' = "idle"
    /\ UNCHANGED <<df, today, idx, properties, errors, srcRows, uiVars,
                   genVars, generation_count, property_data, city,
                   locality, clicked, regens, regens_valid>>

\* the user touches a widget while the handler runs, and Streamlit ends
\* the run at the next st.* call: the st.info of line 1325 or the spinner
\* of line 1329, before the call; a call inside generate_description; or
\* the exit of the spinner block, when the call has returned and line
\* 1338 has not run.  The session keeps what lines 1320-1327 wrote
StopHandle ==
    /\ \/ /\ pc = "call"
          /\ replies' = <<>>
          /\ temperature' = <<>>
          /\ waits' = <<>>
          /\ called' = <<>>
       \/ /\ pc = "call"
          /\ \E seq \in PageOutcomes(api_provider, api_key) :
             \E n \in 0..Len(seq) : Stopped(seq, n, generation_count)
       \/ /\ pc = "returned"
          /\ UNCHANGED <<replies, temperature, waits, called>>
    /\ pc' = "idle"
    /\ UNCHANGED <<df, today, idx, properties, errors, srcRows, uiVars,
                   api_provider, api_key, results, singleVars>>

NextSingle ==
    Type \/ ClickGenerate \/ ClickRegenerate \/ Spinner \/ Finish
        \/ StopHandle

SpecSingle == InitSingle /\ [][NextSingle]_vars

---------------------------------------------------------------------------
(* Claims on coercion, the mapping gate, retries, temperature, the        *)
(* single-property page and the template.                                  *)

\* the area cell cannot be turned into an integer: no such column, an empty
\* cell, text that is no number, or a value that is no finite number
AreaUnusable(row) ==
    \/ Missing(row, "area_sqft")
    \/ ~Float(row["area_sqft"]).ok
    \/ Float(row["area_sqft"]).v.k # "float"

\* n is the number m / 10^e with its fraction discarded toward zero
Truncates(x, n) ==
    /\ n * x.m >= 0
    /\ Abs(n) * Pow10(x.e) <= Abs(x.m)
    /\ Abs(x.m) < (Abs(n) + 1) * Pow10(x.e)

\* C21: area_sqft is parsed as a number and truncated to an integer, the
\* fraction discarded toward zero (1200.9 becomes 1200); a row whose
\* area_sqft is absent or unparsable yields no record but a diagnostic.
C21_AreaTruncated ==
    \A i \in Processed :
        /\ AreaUnusable(df[i + 1]) => ~Emitted(i) /\ Diagnosed(i)
        /\ Emitted(i) =>
              /\ ~AreaUnusable(df[i + 1])
              /\ Truncates(Float(df[i + 1]["area_sqft"]).v, RecordOf(i).area_sqft)

\* a row with area 1200.9 gave a record with area 1200, and a row with the
\* text abc was rejected
C21_Witness ==
    /\ \E i \in Processed :
          /\ Emitted(i) /\ RecordOf(i).area_sqft = 1200
          /\ df[i + 1]["area_sqft"] = FloatCell(12009, 1)
    /\ \E i \in Processed :
          /\ ~Missing(df[i + 1], "area_sqft")
          /\ df[i + 1]["area_sqft"] = StrCell(<<"a","b","c">>)
          /\ Diagnosed(i)

\* every required field mapped to the column of the same name
SameNameMapping ==
    [i \in DOMAIN REQUIRED_FIELDS |-> <<REQUIRED_FIELDS[i], REQUIRED_FIELDS[i]>>]

\* the template as handed to clean_and_process under that mapping
TemplateMapped ==
    apply_mapping(template, TemplateColumns, reverse_mapping(SameNameMapping))

\* C30: the template table, every column mapped to the field of the same
\* name, goes through clean_and_process to one record per template row and
\* no diagnostic; the amenities are split into the listed items
\* (Parking,Gym gives two) and floor_no and total_floors are integers.
C30_TemplateRoundTrip ==
    (pc = "done" /\ df = TemplateMapped) =>
        /\ Len(properties) = Len(template)
        /\ errors = <<>>
        /\ srcRows = <<0, 1>>
        /\ properties[1].amenities
              = <<<<"P","a","r","k","i","n","g">>, <<"G","y","m">>>>
        /\ properties[2].amenities
              = <<<<"P","o","o","l">>, <<"G","a","r","d","e","n">>>>
        /\ properties[1].floor_no = <<5>> /\ properties[1].total_floors = <<10>>
        /\ properties[2].floor_no = <<1>> /\ properties[2].total_floors = <<2>>

\* the call returned from the template table
C30_Witness ==
    /\ pc = "done"
    /\ df = TemplateMapped
    /\ df = template
    /\ Len(properties) = 2

\* C22: once the gate has let the table through, the renamed table handed
\* to clean_and_process has a column for every one of the ten required
\* fields, whatever mapping the page reached (one source column chosen for
\* two fields and entries naming columns of an earlier file included).
C22_RenamedTableComplete ==
    ran => \A k \in DOMAIN df : \A f \in Required : f \in DOMAIN df[k]

\* C23: generate_with_groq returns after at most retry_count requests (3 by
\* default) whatever the outcomes of the requests are; with retry_count = 0
\* it sends no request and returns None.
C23_GroqBounded ==
    (api_provider = Groq /\ "generate_with_groq" \in {called[k] : k \in DOMAIN called}) =>
        /\ Len(replies) <= retry_count
        /\ GroqFrom(replies, 0, 0, <<>>).used = 0
        /\ GroqFrom(replies, 0, 0, <<>>).value = JsonNull

\* Groq timed out, was rate limited, and the connection broke on the third
\* and last request
C23_Witness ==
    /\ api_provider = Groq
    /\ called = <<"generate_description", "generate_with_groq", "generate_fallback">>
    /\ replies = <<Failed("Timeout"), Http(429, ""), Failed("ConnectionError")>>

\* the latest call of generate_description has returned
Returned == pc \in {"described", "pause"}

\* C24: generate_with_groq asks again only after a 429 or a timeout, and
\* only while attempts remain: any other failure ends the call with None at
\* that request; the waits are those between requests, none after the last
\* attempt; the wait after a 429 on attempt k is 2 * k seconds, after a
\* timeout 2 seconds.
C24_RetryPolicy ==
    (api_provider = Groq /\ "generate_with_groq" \in {called[k] : k \in DOMAIN called}) =>
        /\ \A k \in 1..(Len(replies) - 1) :
              replies[k] \in {Http(429, ""), Failed("Timeout")}
        /\ Len(waits) = Len(replies) - 1
        /\ \A k \in DOMAIN waits :
              waits[k] = IF replies[k] = Http(429, "") THEN 2 * k ELSE 2
        /\ (Returned /\ LastFailed(replies)) =>
              called[Len(called)] = "generate_fallback"

\* rate limited twice, then a timeout on the last attempt: waits of 2 and 4
\* seconds, and none after the timeout
C24_Witness ==
    /\ Returned
    /\ api_provider = Groq
    /\ replies = <<Http(429, ""), Http(429, ""), Failed("Timeout")>>
    /\ waits = <<2, 4>>
    /\ called[Len(called)] = "generate_fallback"

\* the provider functions, and the one of each provider of the sidebar
ProviderFunctions ==
    {"generate_with_groq", "generate_with_claude", "generate_with_grok"}

FunctionOf(provider) ==
    CASE provider = Groq -> "generate_with_groq"
      [] provider = Claude -> "generate_with_claude"
      [] provider = Grok -> "generate_with_grok"
      [] OTHER -> ""

\* C29: with the provider Template (No API), or with no API key, a call of
\* generate_description calls no provider function, makes no request and
\* returns the fallback document; otherwise it calls exactly one provider
\* function, the one of the selected provider, once, and no other.
C29_ProviderDispatch ==
    called # <<>> =>
        IF api_provider = TemplateProvider \/ api_key = ""
        THEN /\ \A k \in DOMAIN called : called[k] \notin ProviderFunctions
             /\ replies = <<>>
             /\ temperature = <<>>
             /\ pc = "pause" =>
                   /\ called = <<"generate_description", "generate_fallback">>
                   /\ results[Len(results)].description
                          = generate_fallback(results[Len(results)].property)
        ELSE /\ {k \in DOMAIN called : called[k] \in ProviderFunctions} = {2}
             /\ called[2] = FunctionOf(api_provider)
             /\ Len(replies) >= 1

\* Groq is selected but no key is entered: the record got the fallback
\* document without a request
C29_Witness ==
    /\ pc = "pause"
    /\ api_provider = Groq
    /\ api_key = ""
    /\ called = <<"generate_description", "generate_fallback">>
    /\ replies = <<>>

\* the step is the call of a Regenerate click that passed validation,
\* made with Groq right after the call of the click before, made with the
\* variation_seed one lower
GroqRegenerated ==
    /\ api_provider = Groq
    /\ clicked = "regenerate"
    /\ pc = "call"
    /\ pc' # "call"
    /\ temperature # <<>>
    /\ temperature' # <<>>

\* C25 as stated: the temperature sent to Groq never falls from one
\* regeneration to the next, for every variation_seed s >= 0.
C25_TemperatureNeverFalls ==
    [][GroqRegenerated => temperature'[1] >= temperature[1]]_vars

\* C25 amended: the temperature sent to Groq does not fall from seed s to
\* seed s + 1 for 0 <= s <= 3, while 0.8 + 0.05 * (s + 1) is at most 1.0;
\* the call is made with the seed generation_count = s + 1.
C25_TemperatureRisesToOne ==
    [][(GroqRegenerated /\ generation_count - 1 <= 3)
          => temperature'[1] >= temperature[1]]_vars

\* the fourth regeneration with Groq sent the temperature 1.00
C25_Witness ==
    /\ api_provider = Groq
    /\ clicked = "regenerate"
    /\ generation_count = 4
    /\ temperature = <<100>>

\* C26: the temperature sent stays within 0.80 .. 1.00 for Groq and within
\* 0.70 .. 1.00 for Claude, for every variation_seed >= 0 (in hundredths).
C26_TemperatureInRange ==
    temperature # <<>> =>
        /\ api_provider = Groq => temperature[1] \in 80..100
        /\ api_provider = Claude => temperature[1] \in 70..100

\* the seventh regeneration with Claude sent 0.75, after the reset
C26_Witness ==
    /\ api_provider = Claude
    /\ generation_count = 7
    /\ temperature = <<75>>

\* C27 as stated: generation_count is the number of Regenerate clicks that
\* passed validation since the most recent Generate click; Regenerate is
\* clicked only when a result exists; generation_count > 0 implies that
\* generated_result and property_data are set.
C27_CountSinceGenerate ==
    /\ generation_count = regens
    /\ clicked = "regenerate" => generated_result # JsonNull
    /\ generation_count > 0 =>
          generated_result # JsonNull /\ property_data # <<>>

\* C27 amended: generation_count is the number of Regenerate clicks that
\* passed validation since the most recent Generate click that passed
\* validation; the rest as stated.
C27_CountSinceValidGenerate ==
    /\ generation_count = regens_valid
    /\ clicked = "regenerate" => generated_result # JsonNull
    /\ generation_count > 0 =>
          generated_result # JsonNull /\ property_data # <<>>

\* two regenerations, then a Generate click turned down for its empty city
C27_Witness ==
    /\ clicked = "generate"
    /\ city = <<>>
    /\ called = <<"st.error">>
    /\ generation_count = 2
    /\ regens_valid = 2
    /\ generated_result # JsonNull

\* the step is a click made with an empty city or an empty locality
EmptyClick ==
    /\ clicked' \in {"generate", "regenerate"}
    /\ city = <<>> \/ locality = <<>>

\* C28: a click on Generate or Regenerate with an empty city or locality is
\* turned down with an error and leaves generation_count, generated_result
\* and property_data as they were; no generation call is made, neither a
\* request nor the fallback.
C28_EmptyClickChangesNothing ==
    [][EmptyClick =>
          /\ UNCHANGED <<generation_count, generated_result, property_data>>
          /\ called' = <<"st.error">>
          /\ replies' = <<>>]_vars

\* a Regenerate click was turned down for its empty locality, the result
\* of the earlier Generate click still there
C28_Witness ==
    /\ clicked = "regenerate"
    /\ locality = <<>>
    /\ called = <<"st.error">>
    /\ generated_result # JsonNull
    /\ property_data # <<>>

====
